---- MODULE Spec2Model ----
(***************************************************************************)
(* ArchFlow: the project store's version/branch tracker, the image-render  *)
(* and scene-JSON orchestrators and the canvas save/load path, as state     *)
(* machines translated from the TypeScript sources.                         *)
(*                                                                          *)
(* Specifications:                                                          *)
(*   Spec        the zustand store's version list (setVersions,             *)
(*               selectVersion, startGeneration, finishGeneration)          *)
(*   SpecRender  one renderScene call at a time, in each of its             *)
(*               implementations, variant by variant                        *)
(*   SpecGen     one generateSceneJson call at a time                       *)
(*   SpecCanvas  saveCanvasState / loadCanvasState against the projects     *)
(*               table                                                      *)
(***************************************************************************)
EXTENDS Integers, Sequences, FiniteSets, TLC

(***************************************************************************)
(* Bounds of the model.                                                     *)
(***************************************************************************)
\* longest version list finishGeneration grows the store to
MaxVersions == 3
\* longest version list handed to setVersions
MaxSetLen == 2

(***************************************************************************)
(* Values.  Ids are JavaScript strings.  The empty string is an id the code *)
(* itself produces: the error paths call                                    *)
(* finishGeneration({ id: '', parentId: null, ... }) and the next run then  *)
(* passes parentId: currentVersionId.  NULL stands for JavaScript's null,   *)
(* UNDEF for undefined.                                                     *)
(***************************************************************************)
NULL == "<null>"
UNDEF == "<undefined>"
Ids == {"", "a", "b"}
ParentIds == Ids \cup {NULL}

\* JavaScript truthiness of a string | null | undefined value
Truthy(x) == x # NULL /\ x # UNDEF /\ x # ""

\* type Version, reduced to the two fields the tracker reads
Version == [id : Ids, parentId : ParentIds]

VARIABLES
    versions,          \* State.versions: flat list of all versions
    currentVersionId,  \* State.currentVersionId: string | null
    activeBranchPath,  \* State.activeBranchPath: ids from root to current
    isGenerating,      \* State.isGenerating
    hung,              \* TRUE once the event loop is stuck inside a walk that never returns
    lastOp,            \* the store action that ran last, with its argument
    \* --- one renderScene call ---
    rImpl,             \* which implementation serves the call
    rBody,             \* the request body
    rVar,              \* per variant index: phase, diffusion outcome, image URL
    rCalls,            \* seeds of the diffusion calls issued, in order of issue
    rOutcome,          \* "none" | "pending" | "resolved" | "rejected"
    rImages,           \* the images the call returned
    rLateUploads,      \* object-storage uploads started after the call had rejected
    \* --- one generateSceneJson call ---
    gImpl,             \* which implementation serves the call
    gBody,             \* the request body
    gPhase,            \* "idle" | "awaiting" | "returned" | "threw"
    gModelCalls,       \* calls of client.models.generateContent made by this invocation
    gOutput,           \* what the hosted model answered
    gResponse,         \* the returned GenerateJsonResponseBody
    gError,            \* the error surfaced: message, and HTTP status in the route
    \* --- the canvas of the store and its persistence ---
    projectId,         \* the store's projectId
    nodes,             \* the store's nodes
    edges,             \* the store's edges
    saveReq,           \* the updateProject call of a saveCanvasState in flight
    canvasState,       \* projects.canvas_state, per project row
    session,           \* the signed-in user of the browser session
    cSaved,            \* history: the store contents a resolved save stands for
    cOp,               \* history: the last canvas operation
    \* --- requests against the project rows ---
    reqs,              \* per request slot: the write request it carries and how far it got
    settings,          \* projects.color_palette ... lighting, per project row
    race,              \* history: two updateProject calls that both passed the checks before either wrote
    \* --- errors thrown by the server actions ---
    thrown,            \* the failed server-action calls so far: action, cause, message thrown
    \* --- runs of input nodes on the node canvas ---
    nImpl,             \* which node canvas component is mounted
    runs,              \* per run: the input node, how far handleRunInputNode got, what it did
    local,             \* the component's nodes: per input node prompt and isGenerating, and the output nodes
    nodesRef,          \* nodesRef.current: the nodes as of the last flushed effect
    outEdges,          \* the component's edges from input to output nodes
    \* --- the canvas component's local nodes and the store's nodes, kept alike by two effects ---
    localNodes,        \* useNodesState: the nodes the canvas component renders
    storeNodes,        \* the store's nodes as the component's effects see them
    dirty,             \* which of the two lists changed since the last commit
    sameRef,           \* TRUE when both lists are one and the same array
    external,          \* the number of loads and local changes so far
    \* --- uploadImage ---
    upCall,            \* the last call of uploadImage: its file, key and outcome
    \* --- one variant of the RunPod renderScene: submission and status polling ---
    pJob,              \* the job: position in the loop, attempts, status checks made, outcome
    \* --- the stage tag handleRunInputNode selects ---
    stagePick,         \* the last selection: the store's edges, the node's viewType, the tag chosen
    \* --- the reference images of one input node ---
    refImages,         \* data.referenceImages of the input node
    refOp,             \* history: the last operation on the list, its argument, the list before it
    \* --- the editor page's load of a project: legacy versions become output nodes ---
    migNodes,          \* the nodes handed to the store by fetchData
    migVersions,       \* canvasState.versions of the project row
    migOp              \* history: the last load, and the nodes the row held before it

storeVars == <<versions, currentVersionId, activeBranchPath, isGenerating, hung, lastOp>>
renderVars == <<rImpl, rBody, rVar, rCalls, rOutcome, rImages, rLateUploads>>
genVars == <<gImpl, gBody, gPhase, gModelCalls, gOutput, gResponse, gError>>

canvasVars == <<projectId, nodes, edges, saveReq, canvasState, session, cSaved, cOp>>

projectVars == <<reqs, settings, race>>

errorVars == <<thrown>>

runVars == <<nImpl, runs, local, nodesRef, outEdges>>

syncVars == <<localNodes, storeNodes, dirty, sameRef, external>>

uploadVars == <<upCall>>

pollVars == <<pJob>>

stageVars == <<stagePick>>

refVars == <<refImages, refOp>>

migVars == <<migNodes, migVersions, migOp>>

vars == <<storeVars, renderVars, genVars, canvasVars, projectVars, errorVars, runVars, syncVars, uploadVars, pollVars, stageVars, refVars, migVars>>

(***************************************************************************)
(* Array.prototype.find(v => v.id === id): the index of the first entry    *)
(* with that id, 0 for undefined.                                           *)
(***************************************************************************)
find(id, allVersions) ==
    LET hits == {i \in 1..Len(allVersions) : allVersions[i].id = id}
    IN IF hits = {} THEN 0 ELSE CHOOSE i \in hits : \A j \in hits : i <= j

(***************************************************************************)
(* The while loop of calculatePathToRoot.  current is an index into         *)
(* allVersions (0: undefined).  Every iteration's current is a first-match *)
(* entry and is a function of the previous one, so a loop that needs more   *)
(* than Len(allVersions) iterations has met some entry twice and never      *)
(* ends: that outcome is reported as diverged.                              *)
(***************************************************************************)
\* mutant: the next entry is looked up by the current entry's own id
RECURSIVE walk_selfLookup(_, _, _, _)
walk_selfLookup(path, current, allVersions, fuel) ==
    IF current = 0 \/ ~Truthy(allVersions[current].parentId)
    THEN [path |-> path, diverged |-> FALSE]
    ELSE IF fuel = 0
         THEN [path |-> path, diverged |-> TRUE]
         ELSE walk_selfLookup(<<allVersions[current].parentId>> \o path,
                              find(allVersions[current].id, allVersions),
                              allVersions, fuel - 1)

RECURSIVE walk(_, _, _, _)
walk(path, current, allVersions, fuel) ==
    IF current = 0 \/ ~Truthy(allVersions[current].parentId)
    THEN [path |-> path, diverged |-> FALSE]
    ELSE IF fuel = 0
         THEN [path |-> path, diverged |-> TRUE]
         ELSE walk(<<allVersions[current].parentId>> \o path,
                   find(allVersions[current].parentId, allVersions),
                   allVersions, fuel - 1)

calculatePathToRoot(startId, allVersions) ==
    walk(<<startId>>, find(startId, allVersions), allVersions, Len(allVersions))

(***************************************************************************)
(* Store actions.                                                           *)
(***************************************************************************)
RECURSIVE SeqsUpTo(_, _)
SeqsUpTo(S, n) ==
    IF n = 0 THEN {<<>>}
    ELSE LET shorter == SeqsUpTo(S, n - 1)
         IN shorter \cup {Append(s, x) : s \in {t \in shorter : Len(t) = n - 1}, x \in S}

\* the lists setVersions is called with
VersionLists == SeqsUpTo(Version, MaxSetLen)

InitStore ==
    /\ versions = <<>>
    /\ currentVersionId = NULL
    /\ activeBranchPath = <<>>
    /\ isGenerating = FALSE
    /\ hung = FALSE
    /\ lastOp = [op |-> "create", arg |-> NULL]

\* setVersions is called by the editor page's mount effect, before any other
\* store action of the session; selectVersion and finishGeneration read only
\* versions, so the list it installs is all that later actions depend on.
setVersions(vs) ==
    /\ ~hung
    /\ lastOp.op = "create"
    /\ versions' = vs
    /\ lastOp' = [op |-> "setVersions", arg |-> NULL]
    /\ UNCHANGED <<currentVersionId, activeBranchPath, isGenerating, hung>>

selectVersion(id) ==
    /\ ~hung
    /\ LET r == calculatePathToRoot(id, versions)
       IN IF r.diverged
          THEN /\ hung' = TRUE
               /\ UNCHANGED <<currentVersionId, activeBranchPath>>
          ELSE /\ currentVersionId' = id
               /\ activeBranchPath' = r.path
               /\ hung' = FALSE
    /\ lastOp' = [op |-> "selectVersion", arg |-> id]
    /\ UNCHANGED <<versions, isGenerating>>

startGeneration ==
    /\ ~hung
    /\ isGenerating' = TRUE
    /\ lastOp' = [op |-> "startGeneration", arg |-> NULL]
    /\ UNCHANGED <<versions, currentVersionId, activeBranchPath, hung>>

\* mutant: an entry whose id is already present is not appended again
finishGeneration_dedup(newVersion) ==
    /\ ~hung
    /\ Len(versions) < MaxVersions
    /\ LET updatedVersions == IF find(newVersion.id, versions) # 0
                              THEN versions
                              ELSE Append(versions, newVersion)
           r == calculatePathToRoot(newVersion.id, updatedVersions)
       IN IF r.diverged
          THEN /\ hung' = TRUE
               /\ UNCHANGED <<versions, currentVersionId, activeBranchPath, isGenerating>>
          ELSE /\ versions' = updatedVersions
               /\ currentVersionId' = newVersion.id
               /\ activeBranchPath' = r.path
               /\ isGenerating' = FALSE
               /\ hung' = FALSE
    /\ lastOp' = [op |-> "finishGeneration", arg |-> newVersion]

finishGeneration(newVersion) ==
    /\ ~hung
    /\ Len(versions) < MaxVersions
    /\ LET updatedVersions == Append(versions, newVersion)
           r == calculatePathToRoot(newVersion.id, updatedVersions)
       IN IF r.diverged
          THEN /\ hung' = TRUE
               /\ UNCHANGED <<versions, currentVersionId, activeBranchPath, isGenerating>>
          ELSE /\ versions' = updatedVersions
               /\ currentVersionId' = newVersion.id
               /\ activeBranchPath' = r.path
               /\ isGenerating' = FALSE
               /\ hung' = FALSE
    /\ lastOp' = [op |-> "finishGeneration", arg |-> newVersion]

SetVersions == (\E vs \in VersionLists : setVersions(vs)) /\ UNCHANGED <<renderVars, genVars, canvasVars, projectVars, errorVars, runVars, syncVars, uploadVars, pollVars, stageVars, refVars, migVars>>
SelectVersion == (\E id \in Ids : selectVersion(id)) /\ UNCHANGED <<renderVars, genVars, canvasVars, projectVars, errorVars, runVars, syncVars, uploadVars, pollVars, stageVars, refVars, migVars>>
StartGeneration == startGeneration /\ UNCHANGED <<renderVars, genVars, canvasVars, projectVars, errorVars, runVars, syncVars, uploadVars, pollVars, stageVars, refVars, migVars>>
FinishGeneration == (\E v \in Version : finishGeneration(v)) /\ UNCHANGED <<renderVars, genVars, canvasVars, projectVars, errorVars, runVars, syncVars, uploadVars, pollVars, stageVars, refVars, migVars>>

(***************************************************************************)
(* The state after construction: the store as create() builds it, and no    *)
(* server call made yet.                                                    *)
(***************************************************************************)
NoBody == [json_prompt |-> FALSE,
           variants |-> [set |-> FALSE, n |-> 0],
           seed |-> [set |-> FALSE, n |-> 0]]

InitRender ==
    /\ rImpl = "none"
    /\ rBody = NoBody
    /\ rVar = <<>>
    /\ rCalls = <<>>
    /\ rOutcome = "none"
    /\ rImages = <<>>
    /\ rLateUploads = 0

NoGenBody == [type |-> UNDEF, parent_id |-> UNDEF, style |-> UNDEF]
NoValue == [id |-> UNDEF, parent_id |-> UNDEF, type |-> UNDEF, style |-> UNDEF,
            json_prompt |-> UNDEF]
NoOutput == [kind |-> "none", fence |-> "none", value |-> NoValue]
NoError == [message |-> "", status |-> 0]

InitGen ==
    /\ gImpl = "none"
    /\ gBody = NoGenBody
    /\ gPhase = "idle"
    /\ gModelCalls = 0
    /\ gOutput = NoOutput
    /\ gResponse = NoValue
    /\ gError = NoError

NoSave == [projectId |-> NULL, nodes |-> <<>>, edges |-> <<>>]
\* a canvas_state column holding SQL NULL; a stored object has isNull FALSE,
\* and hasGraph tells whether it has the keys nodes and edges
NullCanvas == [isNull |-> TRUE, hasGraph |-> FALSE, nodes |-> <<>>, edges |-> <<>>,
               versions |-> 0]
ProjectRows == {"p1"}
ownerOf(p) == "u1"

InitCanvas ==
    /\ projectId = NULL
    /\ nodes = <<>>
    /\ edges = <<>>
    /\ saveReq = NoSave
    /\ canvasState = [p \in ProjectRows |-> NullCanvas]
    /\ session = "u1"
    /\ cSaved = NoSave
    /\ cOp = [op |-> "create", arg |-> NULL]

MaxRequests == 2
Slots == 1..MaxRequests
NoRequest == [path |-> "none", id |-> NULL, user |-> NULL, data |-> "none", pc |-> "idle",
              snap |-> NullCanvas, status |-> "none", cause |-> "none", wrote |-> FALSE]
NoRace == [row |-> NULL, first |-> 0, second |-> 0]

InitProjects ==
    /\ reqs = [s \in Slots |-> NoRequest]
    /\ settings = [p \in ProjectRows |-> "unset"]
    /\ race = NoRace

MaxRuns == 2
RunIds == 1..MaxRuns
InputNodes == {"in-1", "in-2"}
NoNodes == [gen |-> [n \in InputNodes |-> FALSE],
            prompt |-> [n \in InputNodes |-> ""],
            outs |-> 0, imaged |-> 0]
NoRun == [node |-> "none", pc |-> "idle", jsonCalled |-> FALSE, jsonOk |-> FALSE,
          renderCalled |-> FALSE, renderOk |-> FALSE, added |-> 0, addedEdges |-> 0,
          toSave |-> 0, timer |-> FALSE, failedAt |-> "none", snap |-> NoNodes]

InitRun ==
    /\ nImpl = "none"
    /\ runs = [r \in RunIds |-> NoRun]
    /\ local = NoNodes
    /\ nodesRef = NoNodes
    /\ outEdges = 0

\* the canvas component mounts with no nodes, the store is created with no
\* nodes, and every effect runs once after the first render
InitSync ==
    /\ localNodes = <<>>
    /\ storeNodes = <<>>
    /\ dirty = [nodes |-> TRUE, store |-> TRUE]
    /\ sameRef = FALSE
    /\ external = 0

NoUpload == [state |-> "none", hasFile |-> FALSE, name |-> <<>>, key |-> <<>>,
             url |-> <<>>, message |-> ""]

InitUpload == upCall = NoUpload

NoJob == [pc |-> "none", attempts |-> 0, checks |-> 0, sawCompleted |-> FALSE,
          sawFailed |-> FALSE, hasUrl |-> FALSE, message |-> ""]

InitPoll == pJob = NoJob

NoPick == [called |-> FALSE, edges |-> <<>>, viewType |-> UNDEF, type |-> ""]

InitStage == stagePick = NoPick

NoRefOp == [op |-> "create", arg |-> "", before |-> <<>>]

\* addInputNode: referenceImages: []
InitRef ==
    /\ refImages = <<>>
    /\ refOp = NoRefOp

InitMig ==
    /\ migNodes = <<>>
    /\ migVersions = <<>>
    /\ migOp = [op |-> "none", before |-> <<>>]

Init ==
    /\ InitStore
    /\ InitRender
    /\ InitGen
    /\ InitCanvas
    /\ InitProjects
    /\ thrown = <<>>
    /\ InitRun
    /\ InitSync
    /\ InitUpload
    /\ InitPoll
    /\ InitStage
    /\ InitRef
    /\ InitMig

Next ==
    \/ SetVersions
    \/ SelectVersion
    \/ StartGeneration
    \/ FinishGeneration

Spec == Init /\ [][Next]_vars

(***************************************************************************)
(* Vocabulary of the claims about the version tracker, defined on the list  *)
(* itself and not through walk.                                             *)
(***************************************************************************)
Last(p) == p[Len(p)]

IdsOf(vs) == {vs[i].id : i \in DOMAIN vs}

UniqueIds(vs) == \A i, j \in DOMAIN vs : vs[i].id = vs[j].id => i = j

\* id -> parentId, for every entry whose parentId is not null
ParentEdges(vs) ==
    {<<vs[i].id, vs[i].parentId>> : i \in {k \in DOMAIN vs : vs[k].parentId # NULL}}

\* id -> parentId of the entry that find returns for that id
FirstParentEdges(vs) ==
    {<<vs[i].id, vs[i].parentId>> :
        i \in {k \in DOMAIN vs : vs[k].parentId # NULL /\ find(vs[k].id, vs) = k}}

RECURSIVE Closure(_, _)
Closure(R, n) ==
    IF n = 0 THEN R
    ELSE LET C == Closure(R, n - 1)
             joins == {pr \in C \X R : pr[1][2] = pr[2][1]}
         IN C \cup {<<pr[1][1], pr[2][2]>> : pr \in joins}

TransitiveClosure(R) == Closure(R, Cardinality(R))

\* no chain of entries, each naming the next one's id as its parentId, returns
\* to the id it started from
NoParentCycle(vs) == \A e \in TransitiveClosure(ParentEdges(vs)) : e[1] # e[2]

\* every non-null parentId is the id of some entry
ParentsExist(vs) == \A i \in DOMAIN vs : vs[i].parentId # NULL => vs[i].parentId \in IdsOf(vs)

ParentOf(id, vs) == vs[find(id, vs)].parentId

\* p is the chain of ids from the entry whose parentId is null down to id
IsRootPath(p, id, vs) ==
    /\ Len(p) >= 1
    /\ Last(p) = id
    /\ \A k \in 1..Len(p) : p[k] \in IdsOf(vs)
    /\ ParentOf(p[1], vs) = NULL
    /\ \A k \in 1..(Len(p) - 1) : ParentOf(p[k + 1], vs) = p[k]

\* the parentIds the parent chain of id reaches that match no entry
DanglingAncestors(id, vs) ==
    {e[2] : e \in {f \in TransitiveClosure(FirstParentEdges(vs)) :
                      f[1] = id /\ f[2] \notin IdsOf(vs)}}

WalkEndsAt(id, vs) ==
    LET r == calculatePathToRoot(id, vs)
    IN ~r.diverged /\ Last(r.path) = id

(***************************************************************************)
(* C1 (as stated): for every version v of the store's list, however the     *)
(* list was built, calculatePathToRoot(v.id, versions) terminates and its   *)
(* path ends with v.id.                                                     *)
(***************************************************************************)
C1_EveryWalkTerminates ==
    \A i \in DOMAIN versions : WalkEndsAt(versions[i].id, versions)

(***************************************************************************)
(* C1 (amended): for every version v of a list that has no parent cycle,    *)
(* calculatePathToRoot(v.id, versions) terminates and its path ends with    *)
(* v.id; on such a list no selectVersion hangs the store.                   *)
(***************************************************************************)
C1_AcyclicWalkTerminates ==
    NoParentCycle(versions) =>
        /\ \A i \in DOMAIN versions : WalkEndsAt(versions[i].id, versions)
        /\ (lastOp.op = "selectVersion" => ~hung)

C1_Witness ==
    /\ lastOp.op = "selectVersion"
    /\ ~hung
    /\ NoParentCycle(versions)
    /\ Len(versions) = 3
    /\ Len(activeBranchPath) = 3
    /\ currentVersionId \in IdsOf(versions)

(***************************************************************************)
(* C2: after selectVersion(id) on a list with unique ids, no parent cycle   *)
(* and every non-null parentId present, currentVersionId = id and           *)
(* activeBranchPath is the chain of ids from the entry whose parentId is    *)
(* null down to id, each element the parentId of the next.                  *)
(***************************************************************************)
C2_SelectYieldsRootPath ==
    ( /\ lastOp.op = "selectVersion"
      /\ ~hung
      /\ UniqueIds(versions)
      /\ NoParentCycle(versions)
      /\ ParentsExist(versions)
      /\ lastOp.arg \in IdsOf(versions) )
    => /\ currentVersionId = lastOp.arg
       /\ IsRootPath(activeBranchPath, lastOp.arg, versions)

(***************************************************************************)
(* C3: a finishGeneration(v) that returns has appended v as the last entry  *)
(* (earlier entries kept in order, one entry more, also when v.id is        *)
(* already present), set currentVersionId to v.id, activeBranchPath to the  *)
(* path computed over the updated list, and isGenerating to false.          *)
(***************************************************************************)
C3_FinishAppendsAndReselects ==
    [][ (lastOp'.op = "finishGeneration" /\ ~hung') =>
            /\ versions' = Append(versions, lastOp'.arg)
            /\ currentVersionId' = lastOp'.arg.id
            /\ activeBranchPath' = calculatePathToRoot(lastOp'.arg.id, versions').path
            /\ Last(activeBranchPath') = lastOp'.arg.id
            /\ isGenerating' = FALSE ]_vars

C3_Witness ==
    /\ lastOp.op = "finishGeneration"
    /\ ~hung
    /\ Len(versions) >= 2
    /\ \E i \in 1..(Len(versions) - 1) : versions[i].id = lastOp.arg.id
    /\ versions[Len(versions)] = lastOp.arg
    /\ Len(activeBranchPath) >= 2

(***************************************************************************)
(* C4: when the parent chain of the selected version reaches a parentId     *)
(* that matches no entry, selectVersion and finishGeneration return, and    *)
(* activeBranchPath ends with the selected id and begins with that          *)
(* dangling parentId.                                                       *)
(***************************************************************************)
C4_DanglingParentHeadsPath ==
    (lastOp.op \in {"selectVersion", "finishGeneration"} /\ ~hung) =>
        \A p \in DanglingAncestors(currentVersionId, versions) :
            /\ Last(activeBranchPath) = currentVersionId
            /\ activeBranchPath[1] = p
            /\ p \notin IdsOf(versions)


(***************************************************************************)
(* renderScene.  Four implementations share one shape:                      *)
(*   "action"   the server action that re-uploads to object storage         *)
(*   "plain"    the server action without re-upload                         *)
(*   "route"    POST /scene/render                                          *)
(*   "runpod"   the RunPod server action                                    *)
(* Array.from({length: variants}, async ...) starts every variant's         *)
(* diffusion call before the first await returns, so all calls are issued   *)
(* in index order by the step that starts the call.  Each later step is     *)
(* the completion of one awaited operation of one variant, followed by the  *)
(* promise reactions it triggers (Promise.all settling, the rest of         *)
(* renderScene).                                                            *)
(***************************************************************************)
\* most variants a request asks for
MaxVariants == 2

DefaultSeedFal == 2771
DefaultSeedRoute == 5555

RenderImpls == {"action", "plain", "route", "runpod"}

\* an optional number of the body: absent, or present with value n
OptNum(S) == {[set |-> FALSE, n |-> 0]} \cup {[set |-> TRUE, n |-> k] : k \in S}

RenderBodies ==
    [json_prompt : BOOLEAN,
     variants : OptNum(-1..MaxVariants),
     seed : OptNum({0, 10})]

\* body.variants && body.variants > 0 ? body.variants : 1
\* mutant: no fallback to one variant
effectiveVariants_noDefault(body) ==
    IF body.variants.set /\ body.variants.n > 0 THEN body.variants.n ELSE 0

effectiveVariants(body) ==
    IF body.variants.set /\ body.variants.n # 0 /\ body.variants.n > 0
    THEN body.variants.n
    ELSE 1

\* body.seed ?? 2771 (5555 in the route and the RunPod action)
\* mutant: body.seed || default, which takes seed 0 for a missing seed
baseSeed_orDefault(impl, body) ==
    IF body.seed.set /\ body.seed.n # 0 THEN body.seed.n
    ELSE IF impl \in {"action", "plain"} THEN DefaultSeedFal ELSE DefaultSeedRoute

baseSeed(impl, body) ==
    IF body.seed.set THEN body.seed.n
    ELSE IF impl \in {"action", "plain"} THEN DefaultSeedFal ELSE DefaultSeedRoute

\* image URLs: the diffusion service's, object storage's, or the empty string
\* uploadToR2 returns `${R2_PUBLIC_URL}/${key}`; strings are sequences of pieces
R2_PUBLIC_URL == "<R2_PUBLIC_URL>"
publicUrl(key) == <<R2_PUBLIC_URL, "/">> \o key

EmptyUrl == [host |-> "", idx |-> -1, path |-> <<>>]
falUrl(i) == [host |-> "diffusion", idx |-> i, path |-> <<>>]
r2Url(key, i) == [host |-> "r2", idx |-> i, path |-> publicUrl(key)]

\* result.requestId of a diffusion answer, and Date.now()
RequestIds == {"", "req-1"}
Timestamps == {"1700000000000", "1700000000001"}

\* `generations/${result.requestId || Date.now()}-${index}.png`, index from 0
generationKey(requestId, now, index) ==
    <<"generations/", IF requestId # "" THEN requestId ELSE now, "-", index, ".png">>
UrlTruthy(u) == u.host # ""

Variants == DOMAIN rVar

Terminal(v) == v.phase \in {"done", "threw"}

\* results.map((r) => r.imageUrl).filter(Boolean)
RECURSIVE filterUrls(_, _)
filterUrls(vs, i) ==
    IF i > Len(vs) THEN <<>>
    ELSE IF UrlTruthy(vs[i].url) THEN <<vs[i].url>> \o filterUrls(vs, i + 1)
         ELSE filterUrls(vs, i + 1)

(***************************************************************************)
(* Promise.all(imagePromises) and the statements after it.  rv is the       *)
(* variants' state after the step.  A pending call rejects as soon as one   *)
(* variant has thrown, resolves once every variant is done and at least     *)
(* one image URL is truthy, and rejects (500 in the route) when none is.    *)
(***************************************************************************)
settle(rv, outcome) ==
    IF outcome # "pending" THEN [outcome |-> outcome, images |-> <<>>, keep |-> TRUE]
    ELSE IF \E i \in DOMAIN rv : rv[i].phase = "threw"
         THEN [outcome |-> "rejected", images |-> <<>>, keep |-> FALSE]
    ELSE IF \A i \in DOMAIN rv : rv[i].phase = "done"
         THEN LET images == filterUrls(rv, 1)
              IN IF Len(images) = 0
                 THEN [outcome |-> "rejected", images |-> <<>>, keep |-> FALSE]
                 ELSE [outcome |-> "resolved", images |-> images, keep |-> FALSE]
    ELSE [outcome |-> "pending", images |-> <<>>, keep |-> FALSE]

Settle(rv) ==
    LET s == settle(rv, rOutcome)
    IN /\ rOutcome' = s.outcome
       /\ rImages' = IF s.keep THEN rImages ELSE s.images

\* the call: validation of the body, then one diffusion call per variant
renderScene(impl, body) ==
    /\ rOutcome # "pending"
    /\ \A i \in Variants : Terminal(rVar[i])
    /\ rImpl' = impl
    /\ rBody' = body
    /\ rImages' = <<>>
    /\ rLateUploads' = 0
    /\ IF ~body.json_prompt
       THEN /\ rOutcome' = "rejected"
            /\ rVar' = <<>>
            /\ rCalls' = <<>>
       ELSE LET variants == effectiveVariants(body)
                seed == baseSeed(impl, body)
            IN /\ rOutcome' = IF variants = 0 THEN "rejected" ELSE "pending"
               /\ rVar' = [i \in 1..variants |->
                             [phase |-> "subscribed", diff |-> "none", url |-> EmptyUrl, rid |-> "", key |-> <<>>, dl |-> "none", up |-> "none"]]
               /\ rCalls' = [i \in 1..variants |-> seed + (i - 1)]

\* what a variant does with the diffusion service's answer
\* mutant: the route's handling, where a missing image URL is only logged
afterDiffusion_warnOnly(impl, i, answer) ==
    IF answer = "reject" THEN [phase |-> "threw", diff |-> answer, url |-> EmptyUrl, rid |-> "", key |-> <<>>, dl |-> "none", up |-> "none"]
    ELSE IF answer = "nourl" THEN [phase |-> "done", diff |-> answer, url |-> EmptyUrl, rid |-> "", key |-> <<>>, dl |-> "none", up |-> "none"]
    ELSE IF impl = "action" THEN [phase |-> "downloading", diff |-> answer, url |-> falUrl(i), rid |-> "", key |-> <<>>, dl |-> "none", up |-> "none"]
    ELSE [phase |-> "done", diff |-> answer, url |-> falUrl(i), rid |-> "", key |-> <<>>, dl |-> "none", up |-> "none"]

afterDiffusion(impl, i, answer) ==
    IF answer = "reject"
    THEN [phase |-> "threw", diff |-> answer, url |-> EmptyUrl, rid |-> "", key |-> <<>>, dl |-> "none", up |-> "none"]
    ELSE IF answer = "nourl"
         THEN IF impl = "route"
              THEN [phase |-> "done", diff |-> answer, url |-> EmptyUrl, rid |-> "", key |-> <<>>, dl |-> "none", up |-> "none"]
              ELSE [phase |-> "threw", diff |-> answer, url |-> EmptyUrl, rid |-> "", key |-> <<>>, dl |-> "none", up |-> "none"]
    ELSE IF impl = "action"
         THEN [phase |-> "downloading", diff |-> answer, url |-> falUrl(i), rid |-> "", key |-> <<>>, dl |-> "none", up |-> "none"]
         ELSE [phase |-> "done", diff |-> answer, url |-> falUrl(i), rid |-> "", key |-> <<>>, dl |-> "none", up |-> "none"]

\* the diffusion call of variant i answers: an image URL, a response without
\* one, or a rejection
DiffusionAnswers == {"url", "nourl", "reject"}

diffusionReturns(i, answer, requestId) ==
    /\ i \in Variants
    /\ rVar[i].phase = "subscribed"
    /\ rVar' = [rVar EXCEPT ![i] =
                  LET v == afterDiffusion(rImpl, i, answer)
                  IN IF v.phase = "downloading" THEN [v EXCEPT !.rid = requestId] ELSE v]
    /\ Settle(rVar')
    /\ UNCHANGED <<rImpl, rBody, rCalls, rLateUploads>>

\* fetch(imageUrl) of the re-uploading action returns: ok starts the upload,
\* a non-ok status or a thrown error keeps the diffusion URL
downloadReturns(i, res, now) ==
    /\ i \in Variants
    /\ rVar[i].phase = "downloading"
    /\ rVar' = [rVar EXCEPT ![i].phase = IF res = "ok" THEN "uploading" ELSE "done",
                            ![i].dl = res,
                            ![i].key = IF res = "ok"
                                       THEN generationKey(rVar[i].rid, now, i - 1)
                                       ELSE @]
    /\ rLateUploads' = IF res = "ok" /\ rOutcome = "rejected"
                       THEN rLateUploads + 1 ELSE rLateUploads
    /\ Settle(rVar')
    /\ UNCHANGED <<rImpl, rBody, rCalls>>

\* uploadToR2 returns the public URL or throws; the throw is caught and the
\* diffusion URL kept
\* mutant: the throw of uploadToR2 is not caught
uploadReturns_uncaught(i, res) ==
    /\ i \in Variants
    /\ rVar[i].phase = "uploading"
    /\ rVar' = [rVar EXCEPT ![i].phase = IF res = "ok" THEN "done" ELSE "threw",
                            ![i].up = res,
                            ![i].url = IF res = "ok" THEN r2Url(rVar[i].key, i) ELSE @]
    /\ Settle(rVar')
    /\ UNCHANGED <<rImpl, rBody, rCalls, rLateUploads>>

uploadReturns(i, res) ==
    /\ i \in Variants
    /\ rVar[i].phase = "uploading"
    /\ rVar' = [rVar EXCEPT ![i].phase = "done",
                            ![i].up = res,
                            ![i].url = IF res = "ok" THEN r2Url(rVar[i].key, i) ELSE @]
    /\ Settle(rVar')
    /\ UNCHANGED <<rImpl, rBody, rCalls, rLateUploads>>

RenderScene ==
    (\E impl \in RenderImpls, body \in RenderBodies : renderScene(impl, body))
    /\ UNCHANGED <<storeVars, genVars, canvasVars, projectVars, errorVars, runVars, syncVars, uploadVars, pollVars, stageVars, refVars, migVars>>
DiffusionReturns ==
    (\E i \in 1..(MaxVariants + 1), answer \in DiffusionAnswers, requestId \in RequestIds :
        diffusionReturns(i, answer, requestId))
    /\ UNCHANGED <<storeVars, genVars, canvasVars, projectVars, errorVars, runVars, syncVars, uploadVars, pollVars, stageVars, refVars, migVars>>
DownloadReturns ==
    (\E i \in 1..(MaxVariants + 1), res \in {"ok", "notok", "throws"}, now \in Timestamps :
        downloadReturns(i, res, now))
    /\ UNCHANGED <<storeVars, genVars, canvasVars, projectVars, errorVars, runVars, syncVars, uploadVars, pollVars, stageVars, refVars, migVars>>
UploadReturns ==
    (\E i \in 1..(MaxVariants + 1), res \in {"ok", "fails"} : uploadReturns(i, res))
    /\ UNCHANGED <<storeVars, genVars, canvasVars, projectVars, errorVars, runVars, syncVars, uploadVars, pollVars, stageVars, refVars, migVars>>

NextRender ==
    \/ RenderScene
    \/ DiffusionReturns
    \/ DownloadReturns
    \/ UploadReturns

SpecRender == Init /\ [][NextRender]_vars

\* the variants whose diffusion call has failed or answered without an image URL
FailedVariants == {i \in Variants : rVar[i].diff \in {"reject", "nourl"}}

(***************************************************************************)
(* C5: renderScene with n effective variants issues exactly n diffusion     *)
(* calls and, whenever it succeeds, returns exactly n image URLs, the k-th  *)
(* being variant k's; in the server action and in the route.                *)
(***************************************************************************)
C5_NCallsNImages ==
    (rOutcome # "none" /\ rBody.json_prompt) =>
        LET n == IF rBody.variants.set /\ rBody.variants.n > 0 THEN rBody.variants.n ELSE 1
        IN /\ Len(rCalls) = n
           /\ rOutcome = "resolved" =>
                 /\ Len(rImages) = n
                 /\ \A k \in 1..n : rImages[k] = rVar[k].url /\ UrlTruthy(rImages[k])

(***************************************************************************)
(* C6: if the diffusion call of any variant rejects or yields no image     *)
(* URL, the call never resolves and returns no image, and it has rejected   *)
(* by the time every variant has finished, whatever the other variants do   *)
(* and in whatever order they complete.                                     *)
(***************************************************************************)
C6_AnyFailureRejectsAll ==
    FailedVariants # {} =>
        /\ rOutcome # "resolved"
        /\ rImages = <<>>
        /\ (\A i \in Variants : Terminal(rVar[i])) => rOutcome = "rejected"


(***************************************************************************)
(* generateSceneJson.  Three implementations share one body:                *)
(*   "action"  the server action with the stage tags structure, visualize,  *)
(*             refine                                                       *)
(*   "legacy"  the server action with the legacy tags                       *)
(*   "route"   POST /scene/generate-json, legacy tags, errors as HTTP       *)
(*             statuses                                                     *)
(***************************************************************************)
GenImpls == {"action", "legacy", "route"}

\* z.enum([...]) of the implementation's generateJsonResponseSchema
StageTags(impl) ==
    IF impl = "action"
    THEN {"structure", "visualize", "refine"}
    ELSE {"floor plan image", "floor plan prompt", "generate", "refine"}

\* JSON values that are not strings
NUM == "<number>"
REC == "<record>"
EMPTYREC == "<empty record>"
ARRAY == "<array>"
NonStrings == {NULL, UNDEF, NUM, REC, EMPTYREC, ARRAY}
IsString(x) == x \notin NonStrings

GenBodies ==
    [type : {UNDEF, "", "structure", "generate", "refine"},
     parent_id : {UNDEF, NULL, "p0"},
     style : {UNDEF, "boho"}]

\* the top-level JSON objects the model may emit (UNDEF: the key is missing)
ModelValues ==
    [id : {"scene_1", "", UNDEF, NUM},
     parent_id : {"p1", NULL, UNDEF, NUM},
     type : {"structure", "generate", "refine", "bogus", UNDEF},
     style : {"modern", UNDEF, NUM},
     json_prompt : {REC, EMPTYREC, ARRAY, NULL, UNDEF}]

\* result.text: undefined, empty, not JSON, JSON that is no object, or a JSON
\* object, bare or inside a markdown fence (closed or left open)
ModelOutputs ==
    {[kind |-> k, fence |-> "none", value |-> NoValue] :
        k \in {"rejects", "undefined", "empty", "garbage", "nonobject"}}
    \cup [kind : {"object"}, fence : {"none", "json", "unclosed"}, value : ModelValues]

\* text.trim(), the code-fence regex and JSON.parse: the parsed value, or a
\* SyntaxError
jsonParse(output) ==
    IF output.kind = "garbage" \/ output.fence = "unclosed"
    THEN [ok |-> FALSE, object |-> FALSE, value |-> NoValue]
    ELSE IF output.kind = "nonobject"
         THEN [ok |-> TRUE, object |-> FALSE, value |-> NoValue]
         ELSE [ok |-> TRUE, object |-> TRUE, value |-> output.value]

\* generateJsonResponseSchema.parse(parsed)
\* mutant: the parsed value is used without validation
schemaAccepts_unchecked(impl, parsed) == parsed.object

schemaAccepts(impl, parsed) ==
    /\ parsed.object
    /\ IsString(parsed.value.id)
    /\ (IsString(parsed.value.parent_id) \/ parsed.value.parent_id = NULL)
    /\ parsed.value.type \in StageTags(impl)
    /\ (IsString(parsed.value.style) \/ parsed.value.style = UNDEF)
    /\ parsed.value.json_prompt \in {REC, EMPTYREC}

\* x ?? y
Coalesce(x, y) == IF x \in {NULL, UNDEF} THEN y ELSE x

\* "Apply fallback defaults if any fields are missing"
buildResponse(validated, body) ==
    [id |-> IF Truthy(validated.id) THEN validated.id ELSE "scene_<now>",
     parent_id |-> Coalesce(Coalesce(validated.parent_id, body.parent_id), NULL),
     type |-> IF Truthy(validated.type) THEN validated.type ELSE body.type,
     style |-> Coalesce(validated.style, body.style),
     json_prompt |-> IF validated.json_prompt \in {NULL, UNDEF} THEN EMPTYREC
                     ELSE validated.json_prompt]

\* how an error reaches the caller: the action rethrows
\* new Error(error.message) from its catch block, the route
\* answers 400 with the message or 500 with a generic one
surface(impl, message, status) ==
    IF impl = "route"
    THEN [message |-> IF status = 400 THEN message ELSE "Failed to generate scene JSON",
          status |-> status]
    ELSE [message |-> message, status |-> 0]

MissingType == "Missing required field \"type\"."

\* the call up to its first await.  The function keeps no state between
\* invocations, so a behaviour follows one invocation from its start.
\* mutant: the type check is made after the model has been called
generateSceneJson_lateTypeCheck(impl, body, apiKey) ==
    /\ gImpl' = impl
    /\ gBody' = body
    /\ gOutput' = NoOutput
    /\ gResponse' = NoValue
    /\ IF ~apiKey
       THEN /\ gPhase' = "threw"
            /\ gModelCalls' = 0
            /\ gError' = surface(impl, "Missing GEMINI_API_KEY", 500)
       ELSE /\ gPhase' = IF Truthy(body.type) THEN "awaiting" ELSE "threw"
            /\ gModelCalls' = 1
            /\ gError' = IF Truthy(body.type) THEN NoError
                         ELSE surface(impl, MissingType, 400)

generateSceneJson(impl, body, apiKey) ==
    /\ gImpl' = impl
    /\ gBody' = body
    /\ gOutput' = NoOutput
    /\ gResponse' = NoValue
    /\ IF ~Truthy(body.type)
       THEN /\ gPhase' = "threw"
            /\ gModelCalls' = 0
            /\ gError' = surface(impl, MissingType, 400)
       ELSE IF ~apiKey
            THEN /\ gPhase' = "threw"
                 /\ gModelCalls' = 0
                 /\ gError' = surface(impl, "Missing GEMINI_API_KEY", 500)
            ELSE /\ gPhase' = "awaiting"
                 /\ gModelCalls' = 1
                 /\ gError' = NoError

\* what the call does once the model's answer has failed: the error goes to
\* the caller
\* mutant: one more attempt before giving up
onFailure_retryOnce(impl, message, calls) ==
    IF calls < 2
    THEN [phase |-> "awaiting", calls |-> calls + 1, error |-> NoError]
    ELSE [phase |-> "threw", calls |-> calls, error |-> surface(impl, message, 500)]

onFailure(impl, message, calls) ==
    [phase |-> "threw", calls |-> calls, error |-> surface(impl, message, 500)]

\* the cause of failure of a model answer, "" when it is accepted
failureOf(impl, output) ==
    IF output.kind = "rejects" THEN "model call failed"
    ELSE IF output.kind \in {"undefined", "empty"} THEN "Empty response from @google/genai."
    ELSE IF ~jsonParse(output).ok THEN "Failed to parse JSON response from model"
    ELSE IF ~schemaAccepts(impl, jsonParse(output)) THEN "ZodError"
    ELSE ""

\* await client.models.generateContent(...) settles, and the rest of the body
modelReturns(output) ==
    /\ gOutput' = output
    /\ LET failure == failureOf(gImpl, output)
       IN IF failure # ""
          THEN LET f == onFailure(gImpl, failure, gModelCalls)
               IN /\ gPhase' = f.phase
                  /\ gModelCalls' = f.calls
                  /\ gError' = f.error
                  /\ gResponse' = NoValue
          ELSE /\ gPhase' = "returned"
               /\ gResponse' = buildResponse(jsonParse(output).value, gBody)
               /\ gError' = IF gImpl = "route" THEN [message |-> "", status |-> 200]
                            ELSE NoError
               /\ UNCHANGED gModelCalls
    /\ UNCHANGED <<gImpl, gBody>>

GenerateSceneJson ==
    /\ gPhase = "idle"
    /\ \E impl \in GenImpls, body \in GenBodies, apiKey \in BOOLEAN :
        generateSceneJson(impl, body, apiKey)
    /\ UNCHANGED <<storeVars, renderVars, canvasVars, projectVars, errorVars, runVars, syncVars, uploadVars, pollVars, stageVars, refVars, migVars>>
ModelReturns ==
    /\ gPhase = "awaiting"
    /\ \E output \in ModelOutputs : modelReturns(output)
    /\ UNCHANGED <<storeVars, renderVars, canvasVars, projectVars, errorVars, runVars, syncVars, uploadVars, pollVars, stageVars, refVars, migVars>>

NextGen ==
    \/ GenerateSceneJson
    \/ ModelReturns

SpecGen == Init /\ [][NextGen]_vars

\* the fixed schema, stated on a value
MeetsSchema(v, impl) ==
    /\ v.id \notin {NULL, UNDEF, NUM, REC, EMPTYREC, ARRAY}
    /\ v.parent_id \notin {UNDEF, NUM, REC, EMPTYREC, ARRAY}
    /\ v.type \in StageTags(impl)
    /\ v.json_prompt \in {REC, EMPTYREC}

(***************************************************************************)
(* C7: a call with a missing (falsy) type is rejected before any call to    *)
(* the hosted model: the action throws 'Missing required field "type".',    *)
(* the route answers 400, and the model client is never invoked.            *)
(***************************************************************************)
C7_MissingTypeRejectedFirst ==
    (gPhase # "idle" /\ gBody.type \in {UNDEF, NULL, ""}) =>
        /\ gPhase = "threw"
        /\ gModelCalls = 0
        /\ gError.message = MissingType
        /\ (gImpl = "route" => gError.status = 400)

C7_Witness ==
    /\ gPhase = "threw"
    /\ gImpl = "route"
    /\ gBody.type = ""
    /\ gError.status = 400

(***************************************************************************)
(* C8: whenever generateSceneJson returns, the returned object satisfies    *)
(* the fixed schema (id a string, parent_id a string or null, type an       *)
(* accepted stage tag, json_prompt a record), and the model's output was a  *)
(* JSON object satisfying it.                                               *)
(***************************************************************************)
C8_ReturnedMeetsSchema ==
    gPhase = "returned" =>
        /\ MeetsSchema(gResponse, gImpl)
        /\ gOutput.kind = "object"
        /\ gOutput.fence # "unclosed"
        /\ MeetsSchema(gOutput.value, gImpl)

C8_Witness ==
    /\ gPhase = "returned"
    /\ gOutput.fence = "json"
    /\ gOutput.value.id = ""
    /\ gOutput.value.parent_id = NULL
    /\ gBody.parent_id = "p0"
    /\ gResponse.parent_id = "p0"
    /\ gResponse.id = "scene_<now>"

(***************************************************************************)
(* C9: one invocation calls the hosted model at most once; an empty,        *)
(* unparseable or schema-violating answer ends the invocation with the      *)
(* error surfaced to the caller and no second call.                         *)
(***************************************************************************)
C9_AtMostOneModelCall ==
    /\ gModelCalls <= 1
    /\ (gOutput.kind # "none" /\ ~(gOutput.kind = "object" /\ gOutput.fence # "unclosed"
                                   /\ MeetsSchema(gOutput.value, gImpl)))
          => (gPhase = "threw" /\ gModelCalls = 1 /\ gError.message # "")

C9_Witness ==
    /\ gPhase = "threw"
    /\ gModelCalls = 1
    /\ gOutput.kind = "object"
    /\ gOutput.fence = "none"
    /\ gOutput.value.type = "bogus"


(***************************************************************************)
(* The canvas: the store's nodes and edges, saved into and loaded from the  *)
(* canvas_state jsonb column of the project row.                            *)
(***************************************************************************)
MaxNodes == 1
MaxSavedVersions == 1

FUNC == "<function>"
Users == {"u1", "u2"}
ProjectIds == ProjectRows \cup {"p2"}

\* a node of the graph editor; the canvas component puts callbacks such as
\* onRun into the data of an input node
CanvasNodes ==
    {[id |-> "in-1", type |-> "inputNode", onRun |-> FUNC],
     [id |-> "in-1", type |-> "inputNode", onRun |-> UNDEF],
     [id |-> "out-1", type |-> "outputNode", onRun |-> UNDEF]}
CanvasEdges == {[source |-> "in-1", target |-> "out-1"]}
NodeLists == SeqsUpTo(CanvasNodes, MaxNodes)
EdgeLists == SeqsUpTo(CanvasEdges, 1)

\* JSON.stringify / jsonb: a property holding a function or undefined is left
\* out of the stored object
toJsonNode(n) == [n EXCEPT !.onRun = UNDEF]
toJsonList(ns) == [i \in DOMAIN ns |-> toJsonNode(ns[i])]

\* state.nodes || [], state.edges || []
nodesOf(state) == IF state.hasGraph THEN state.nodes ELSE <<>>
edgesOf(state) == IF state.hasGraph THEN state.edges ELSE <<>>

setProjectId(id) ==
    /\ projectId' = id
    /\ cSaved' = NoSave
    /\ cOp' = [op |-> "setProjectId", arg |-> id]
    /\ UNCHANGED <<nodes, edges, saveReq, canvasState, session>>

setNodes(ns) ==
    /\ nodes' = ns
    /\ cSaved' = NoSave
    /\ cOp' = [op |-> "setNodes", arg |-> NULL]
    /\ UNCHANGED <<projectId, edges, saveReq, canvasState, session>>

setEdges(es) ==
    /\ edges' = es
    /\ cSaved' = NoSave
    /\ cOp' = [op |-> "setEdges", arg |-> NULL]
    /\ UNCHANGED <<projectId, nodes, saveReq, canvasState, session>>

\* saveCanvasState up to its await: nothing to do without a projectId,
\* otherwise updateProject is called with the store's nodes and edges
saveCanvasState ==
    /\ saveReq = NoSave
    /\ IF ~Truthy(projectId)
       THEN UNCHANGED saveReq
       ELSE saveReq' = [projectId |-> projectId, nodes |-> nodes, edges |-> edges]
    /\ cSaved' = NoSave
    /\ cOp' = [op |-> "saveCanvasState", arg |-> projectId]
    /\ UNCHANGED <<projectId, nodes, edges, canvasState, session>>

\* the checks of getProject, updateProject and saveProjectVersion before they
\* touch the row
authorized(p) ==
    /\ session # NULL
    /\ p \in ProjectRows
    /\ ownerOf(p) = session

\* updateProject(id, {canvasState: {nodes, edges}}) settles and
\* saveCanvasState resolves: a rejection is logged and swallowed
updateProjectSettles(fails) ==
    /\ saveReq # NoSave
    /\ IF authorized(saveReq.projectId) /\ ~fails
       THEN canvasState' = [canvasState EXCEPT ![saveReq.projectId] =
                               [isNull |-> FALSE, hasGraph |-> TRUE,
                                nodes |-> toJsonList(saveReq.nodes),
                                edges |-> saveReq.edges,
                                versions |-> 0]]
       ELSE UNCHANGED canvasState
    /\ saveReq' = NoSave
    /\ cSaved' = IF saveReq = [projectId |-> projectId, nodes |-> nodes, edges |-> edges]
                 THEN saveReq ELSE NoSave
    /\ cOp' = [op |-> "saveResolved", arg |-> saveReq.projectId]
    /\ UNCHANGED <<projectId, nodes, edges, session>>

\* loadCanvasState(id): getProject, then the store is set from the row
loadCanvasState(id, fails) ==
    /\ IF session = NULL \/ fails \/ (id \in ProjectRows /\ ownerOf(id) # session)
       THEN UNCHANGED <<projectId, nodes, edges>>
       ELSE IF id \in ProjectRows /\ ~canvasState[id].isNull
            THEN /\ nodes' = nodesOf(canvasState[id])
                 /\ edges' = edgesOf(canvasState[id])
                 /\ projectId' = id
            ELSE /\ projectId' = id
                 /\ UNCHANGED <<nodes, edges>>
    /\ cOp' = [op |-> "loadCanvasState", arg |-> id]
    /\ UNCHANGED <<saveReq, canvasState, session, cSaved>>

\* saveProjectVersion(p, ...): appends to the versions kept in the same column
saveProjectVersion(p) ==
    /\ authorized(p)
    /\ LET current == IF canvasState[p].isNull
                      THEN [NullCanvas EXCEPT !.isNull = FALSE]
                      ELSE canvasState[p]
       IN /\ current.versions < MaxSavedVersions
          /\ canvasState' = [canvasState EXCEPT ![p] =
                                [current EXCEPT !.versions = @ + 1]]
    /\ cSaved' = IF cSaved.projectId = p THEN NoSave ELSE cSaved
    /\ cOp' = [op |-> "saveProjectVersion", arg |-> p]
    /\ UNCHANGED <<projectId, nodes, edges, saveReq, session>>

\* the browser session changes hands or ends
sessionChanges(u) ==
    /\ session # u
    /\ session' = u
    /\ UNCHANGED <<projectId, nodes, edges, saveReq, canvasState, cSaved, cOp>>

otherVars == <<storeVars, renderVars, genVars, projectVars, errorVars, runVars, syncVars, uploadVars, pollVars, stageVars, refVars, migVars>>

SetProjectId == (\E id \in ProjectIds : setProjectId(id)) /\ UNCHANGED otherVars
SetNodes == (\E ns \in NodeLists : setNodes(ns)) /\ UNCHANGED otherVars
SetEdges == (\E es \in EdgeLists : setEdges(es)) /\ UNCHANGED otherVars
SaveCanvasState == saveCanvasState /\ UNCHANGED otherVars
UpdateProjectSettles == (\E fails \in BOOLEAN : updateProjectSettles(fails)) /\ UNCHANGED otherVars
LoadCanvasState ==
    (\E id \in ProjectIds, fails \in BOOLEAN : loadCanvasState(id, fails))
    /\ UNCHANGED otherVars
SaveProjectVersion == (\E p \in ProjectRows : saveProjectVersion(p)) /\ UNCHANGED otherVars
SessionChanges == (\E u \in Users \cup {NULL} : sessionChanges(u)) /\ UNCHANGED otherVars

NextCanvas ==
    \/ SetProjectId
    \/ SetNodes
    \/ SetEdges
    \/ SaveCanvasState
    \/ UpdateProjectSettles
    \/ LoadCanvasState
    \/ SaveProjectVersion
    \/ SessionChanges

SpecCanvas == Init /\ [][NextCanvas]_vars

(***************************************************************************)
(* C10: when saveCanvasState has resolved with the store holding project p, *)
(* nodes N and edges E, and nothing else has written p's canvas state       *)
(* since, a following loadCanvasState(p) leaves the store's nodes equal to  *)
(* N and its edges equal to E.                                              *)
(***************************************************************************)
C10_SaveLoadRoundTrip ==
    (cOp.op = "loadCanvasState" /\ cSaved # NoSave /\ cOp.arg = cSaved.projectId) =>
        /\ nodes = cSaved.nodes
        /\ edges = cSaved.edges


(***************************************************************************)
(* The write paths to a project row: the server actions updateProject and   *)
(* saveProjectVersion, PATCH /projects/:id and POST /projects/:id/settings. *)
(* Each request runs in its own slot; its database reads and its update     *)
(* are separate steps, and the steps of different requests interleave.      *)
(***************************************************************************)
WritePaths == {"updateProject", "saveProjectVersion", "PATCH", "settingsPOST"}

\* the canvas states a client sends
canvasA == [isNull |-> FALSE, hasGraph |-> TRUE,
            nodes |-> <<[id |-> "in-1", type |-> "inputNode", onRun |-> UNDEF]>>,
            edges |-> <<>>, versions |-> 0]
canvasB == [isNull |-> FALSE, hasGraph |-> TRUE,
            nodes |-> <<[id |-> "out-1", type |-> "outputNode", onRun |-> UNDEF]>>,
            edges |-> <<[source |-> "in-1", target |-> "out-1"]>>, versions |-> 0]
sentCanvas(data) == IF data = "A" THEN canvasA ELSE canvasB

\* the reply of a request that stops: the actions throw, the routes answer
\* with a status
stop(r, cause, httpStatus) ==
    [r EXCEPT !.pc = "done", !.cause = cause,
              !.status = IF r.path \in {"PATCH", "settingsPOST"} THEN httpStatus ELSE "threw"]

\* the checks a path makes before its update; "" when they pass
\* mutant: updateProject and saveProjectVersion skip the comparison of owners
refusal_noOwnerCheck(path, user, id) ==
    IF path = "settingsPOST" THEN ""
    ELSE IF user = NULL THEN "nosession"
    ELSE IF id \notin ProjectRows THEN "notfound"
    ELSE ""

refusal(path, user, id) ==
    IF path = "settingsPOST" THEN ""
    ELSE IF user = NULL THEN "nosession"
    ELSE IF id \notin ProjectRows THEN "notfound"
    ELSE IF path # "PATCH" /\ ownerOf(id) # user THEN "notowner"
    ELSE ""

httpOf(cause) ==
    IF cause = "nosession" THEN "401" ELSE IF cause = "notfound" THEN "404" ELSE "500"

\* a request arrives: getServerSession and the findFirst of the row.  A
\* behaviour follows MaxRequests requests, numbered in order of arrival.
requestChecks(s, path, id, user, data) ==
    /\ reqs[s].pc = "idle"
    /\ \A t \in Slots : t < s => reqs[t].pc # "idle"
    /\ LET r == [NoRequest EXCEPT !.path = path, !.id = id, !.user = user, !.data = data]
           cause == refusal(path, user, id)
       IN reqs' = [reqs EXCEPT ![s] =
                     IF cause # "" THEN stop(r, cause, httpOf(cause))
                     ELSE [r EXCEPT !.pc = "checked",
                                    !.snap = IF path = "saveProjectVersion"
                                             THEN canvasState[id] ELSE NullCanvas]]
    /\ UNCHANGED <<canvasState, settings, race>>

\* .set(data) of updateProject and of PATCH: the column is replaced
\* mutant: the keys of the stored object that the request also has are
\* replaced one by one, edges staying when the request's list is empty
written_merged(old, new) ==
    [new EXCEPT !.edges = IF new.edges = <<>> THEN old.edges ELSE new.edges]

written(old, new) == new

\* the update statement of a request that passed its checks
requestWrites(s, dbFails) ==
    LET r == reqs[s]
        rowThere == r.id \in ProjectRows
    IN
    /\ r.pc = "checked"
    /\ IF dbFails
       THEN /\ reqs' = [reqs EXCEPT ![s] = stop(r, "db", "500")]
            /\ UNCHANGED <<canvasState, settings, race>>
       ELSE IF ~rowThere
            \* settings POST on a missing row: the update matches nothing
            THEN /\ reqs' = [reqs EXCEPT ![s] = stop(r, "notfound", "404")]
                 /\ UNCHANGED <<canvasState, settings, race>>
            ELSE /\ reqs' = [reqs EXCEPT ![s] =
                               [r EXCEPT !.pc = "done", !.wrote = TRUE,
                                         !.status = IF r.path \in {"PATCH", "settingsPOST"}
                                                    THEN "200" ELSE "returned"]]
                 /\ IF r.path = "settingsPOST"
                    THEN /\ settings' = [settings EXCEPT ![r.id] = r.data]
                         /\ UNCHANGED canvasState
                    ELSE /\ canvasState' = [canvasState EXCEPT ![r.id] =
                              IF r.path = "saveProjectVersion"
                              THEN [[r.snap EXCEPT !.isNull = FALSE]
                                       EXCEPT !.versions = r.snap.versions + 1]
                              ELSE written(canvasState[r.id], sentCanvas(r.data))]
                         /\ UNCHANGED settings
                 /\ race' =
                      IF r.path = "updateProject" /\ race = NoRace
                         /\ \E t \in Slots \ {s} :
                               /\ reqs[t].pc = "checked"
                               /\ reqs[t].path = "updateProject"
                               /\ reqs[t].id = r.id
                      THEN [row |-> r.id, first |-> s,
                            second |-> CHOOSE t \in Slots \ {s} :
                                          /\ reqs[t].pc = "checked"
                                          /\ reqs[t].path = "updateProject"
                                          /\ reqs[t].id = r.id]
                      ELSE IF race.row = r.id /\ s # race.second THEN NoRace ELSE race

nonProjectVars == <<storeVars, renderVars, genVars, errorVars, runVars, syncVars, uploadVars, pollVars, stageVars, refVars, migVars>>
canvasOnlyVars == <<projectId, nodes, edges, saveReq, session, cSaved, cOp>>

RequestChecks ==
    /\ \E s \in Slots, path \in WritePaths, id \in ProjectIds,
          user \in Users \cup {NULL}, data \in {"A", "B"} :
          /\ path = "saveProjectVersion" => data = "A"
          /\ (path = "saveProjectVersion" /\ id \in ProjectRows)
                => canvasState[id].versions < MaxSavedVersions
          /\ requestChecks(s, path, id, user, data)
    /\ UNCHANGED <<nonProjectVars, canvasOnlyVars>>
RequestWrites ==
    /\ \E s \in Slots, dbFails \in BOOLEAN : requestWrites(s, dbFails)
    /\ UNCHANGED <<nonProjectVars, canvasOnlyVars>>

NextProjects ==
    \/ RequestChecks
    \/ RequestWrites

SpecProjects == Init /\ [][NextProjects]_vars

(***************************************************************************)
(* C11: over every sequence of requests through the four write paths, a     *)
(* project row is modified only by a request whose session user is the      *)
(* row's owner.                                                             *)
(***************************************************************************)
C11_OnlyOwnerWrites ==
    \A s \in Slots : reqs[s].wrote => reqs[s].user = ownerOf(reqs[s].id)

(***************************************************************************)
(* C12: updateProject and saveProjectVersion throw, and write nothing, when *)
(* there is no session user, when the project does not exist, or when the   *)
(* session user is not the project's owner.                                 *)
(***************************************************************************)
C12_RefusedActionWritesNothing ==
    \A s \in Slots :
        (/\ reqs[s].path \in {"updateProject", "saveProjectVersion"}
         /\ \/ reqs[s].user = NULL
            \/ reqs[s].id \notin ProjectRows
            \/ ownerOf(reqs[s].id) # reqs[s].user)
        => /\ reqs[s].pc = "done"
           /\ reqs[s].status = "threw"
           /\ ~reqs[s].wrote

C12_Witness ==
    /\ reqs[1].path = "updateProject"
    /\ reqs[1].user = "u2"
    /\ reqs[1].id = "p1"
    /\ reqs[1].status = "threw"
    /\ reqs[2].path = "saveProjectVersion"
    /\ reqs[2].user = NULL
    /\ reqs[2].status = "threw"
    /\ canvasState["p1"] = NullCanvas

(***************************************************************************)
(* C14: when two updateProject calls on one project have both passed the    *)
(* ownership check before either wrote, the canvasState stored once both    *)
(* have completed is the value of the write applied last, unmerged, and     *)
(* neither call fails because of the other.                                 *)
(***************************************************************************)
C14_LastWriteWins ==
    (race # NoRace /\ reqs[race.second].pc = "done") =>
        LET f == reqs[race.first]
            t == reqs[race.second]
        IN /\ f.wrote
           /\ t.cause \in {"none", "db"}
           /\ t.wrote = (t.cause = "none")
           /\ canvasState[race.row] =
                 IF t.wrote THEN sentCanvas(t.data) ELSE sentCanvas(f.data)

C14_Witness ==
    /\ race # NoRace
    /\ reqs[race.second].wrote
    /\ reqs[race.first].data = "B"
    /\ reqs[race.second].data = "A"
    /\ canvasState[race.row] = canvasA


(***************************************************************************)
(* The catch blocks of the server actions: what a failed call throws to     *)
(* its caller, by cause.                                                    *)
(***************************************************************************)
MaxThrown == 2

ServerActions ==
    {"updateProject", "createProject", "getProject", "saveProjectVersion",
     "uploadImage", "renderScene", "generateSceneJson"}

\* the causes for which an action's try block throws
causesOf(action) ==
    IF action \in {"updateProject", "saveProjectVersion"}
    THEN {"nosession", "notfound", "notowner", "db"}
    ELSE IF action = "createProject" THEN {"nosession", "db"}
    ELSE IF action = "getProject" THEN {"nosession", "notowner", "db"}
    ELSE IF action = "uploadImage" THEN {"nofile", "storage"}
    ELSE IF action = "renderScene" THEN {"nojsonprompt", "nourl", "upstream", "nonerror"}
    ELSE {"notype", "nokey", "upstream", "empty", "parse", "schema", "nonerror"}

\* the message of the error thrown inside the try block
innerMessage(action, cause) ==
    IF cause = "nosession" THEN "Unauthorized"
    ELSE IF cause = "notfound" THEN "Project not found"
    ELSE IF cause = "notowner" THEN "Unauthorized: You do not own this project"
    ELSE IF cause = "db" THEN "<database error>"
    ELSE IF cause = "nofile" THEN "No file provided"
    ELSE IF cause = "storage" THEN "Failed to upload image to storage"
    ELSE IF cause = "nojsonprompt" THEN "Missing required field \"json_prompt\"."
    ELSE IF cause = "nourl" THEN "No image URL in Fal response"
    ELSE IF cause = "upstream" THEN "<upstream error>"
    ELSE IF cause = "notype" THEN MissingType
    ELSE IF cause = "nokey" THEN "Missing GEMINI_API_KEY"
    ELSE IF cause = "empty" THEN "Empty response from @google/genai."
    ELSE IF cause = "parse" THEN "Failed to parse JSON response from model"
    ELSE IF cause = "schema" THEN "ZodError"
    ELSE "<not an Error>"

FixedMessage(action) ==
    IF action = "updateProject" THEN "Failed to update project"
    ELSE IF action = "createProject" THEN "Failed to create project"
    ELSE IF action = "getProject" THEN "Failed to fetch project"
    ELSE IF action = "saveProjectVersion" THEN "Failed to save project version"
    ELSE "Failed to upload image"

\* catch (error) { console.error(...); throw new Error(...) }
\* mutant: every action rethrows the message it caught
rethrown_passThrough(action, cause) == innerMessage(action, cause)

rethrown(action, cause) ==
    IF action \in {"renderScene", "generateSceneJson"}
    THEN IF cause = "nonerror" THEN "Unknown error" ELSE innerMessage(action, cause)
    ELSE FixedMessage(action)

serverActionThrows(action, cause) ==
    /\ Len(thrown) < MaxThrown
    /\ cause \in causesOf(action)
    /\ thrown' = Append(thrown, [action |-> action, cause |-> cause,
                                 message |-> rethrown(action, cause)])

ProjectActionThrows ==
    /\ \E action \in {"updateProject", "createProject", "getProject", "saveProjectVersion"},
          cause \in {"nosession", "notfound", "notowner", "db"} :
          serverActionThrows(action, cause)
    /\ UNCHANGED <<storeVars, renderVars, genVars, canvasVars, projectVars, runVars, syncVars, uploadVars, pollVars, stageVars, refVars, migVars>>
UploadImageThrows ==
    /\ \E cause \in {"nofile", "storage"} : serverActionThrows("uploadImage", cause)
    /\ UNCHANGED <<storeVars, renderVars, genVars, canvasVars, projectVars, runVars, syncVars, uploadVars, pollVars, stageVars, refVars, migVars>>
SceneActionThrows ==
    /\ \E action \in {"renderScene", "generateSceneJson"},
          cause \in causesOf("renderScene") \cup causesOf("generateSceneJson") :
          serverActionThrows(action, cause)
    /\ UNCHANGED <<storeVars, renderVars, genVars, canvasVars, projectVars, runVars, syncVars, uploadVars, pollVars, stageVars, refVars, migVars>>

NextErrors ==
    \/ ProjectActionThrows
    \/ UploadImageThrows
    \/ SceneActionThrows

SpecErrors == Init /\ [][NextErrors]_vars

(***************************************************************************)
(* C13: a server action that fails throws an Error whose message is one     *)
(* fixed string per action, whatever the cause: any two failures of the     *)
(* same action carry the same message.                                      *)
(***************************************************************************)
C13_OneMessagePerAction ==
    \A i, j \in DOMAIN thrown :
        thrown[i].action = thrown[j].action => thrown[i].message = thrown[j].message

\* the same for the project and upload actions only; renderScene and
\* generateSceneJson rethrow the message of the error they caught
C13_OneMessagePerProjectAction ==
    \A i, j \in DOMAIN thrown :
        (/\ thrown[i].action = thrown[j].action
         /\ thrown[i].action \notin {"renderScene", "generateSceneJson"})
        => /\ thrown[i].message = thrown[j].message
           /\ thrown[i].message = FixedMessage(thrown[i].action)

C13_Witness ==
    /\ Len(thrown) = 2
    /\ thrown[1].action = "updateProject"
    /\ thrown[2].action = "updateProject"
    /\ thrown[1].cause = "nosession"
    /\ thrown[2].cause = "db"


(***************************************************************************)
(* handleRunInputNode of the node canvas, in its two versions:              *)
(*   "functional"  nodes and edges are changed by functional updates, the   *)
(*                 images are saved as project versions, and the store is   *)
(*                 told finishGeneration(version)                           *)
(*   "snapshot"    the new node list is built from nodesRef.current, the    *)
(*                 store is synced by hand, and finishGeneration() is       *)
(*                 called without a version                                 *)
(* The canvas holds the input nodes InputNodes; output nodes are counted.   *)
(***************************************************************************)
CanvasImpls == {"functional", "snapshot"}
Prompts == {"", " ", "p"}

\* prompt?.trim()
trim(prompt) == IF prompt = " " THEN "" ELSE prompt

\* inputData.numberOfOutputs || 1
numberOfOutputs(n) == IF n = "in-2" THEN 2 ELSE 1

InFlight(r) == runs[r].pc \in {"json", "render", "saving"}

\* updateNodeData(nodeId, {prompt}); a run reads the prompt once, when it
\* starts, so the edits that matter are those made before a run
updateNodeData(n, prompt) ==
    /\ \A r \in RunIds : ~InFlight(r)
    /\ \E r \in RunIds : runs[r].pc = "idle"
    /\ local.prompt[n] # prompt
    /\ local' = [local EXCEPT !.prompt[n] = prompt]
    /\ UNCHANGED <<nImpl, runs, nodesRef, outEdges>>

\* onNodesChange of useNodesState with a removal: the user deletes an output
\* node while the first hosted call of a run is pending, and the canvas
\* library removes the edge that led to it when there still is one
onNodesChange ==
    /\ \E r \in RunIds : runs[r].pc = "json"
    /\ local.outs > 0
    /\ local' = [local EXCEPT !.outs = @ - 1,
                              !.imaged = IF @ > local.outs - 1 THEN local.outs - 1 ELSE @]
    /\ outEdges' = IF outEdges > 0 THEN outEdges - 1 ELSE outEdges
    /\ UNCHANGED <<nImpl, runs, nodesRef>>

\* useEffect(() => { nodesRef.current = nodes }, [nodes])
refEffect ==
    /\ nodesRef # local
    /\ nodesRef' = local
    /\ UNCHANGED <<nImpl, runs, local, outEdges>>

\* finishGeneration() of the store the snapshot canvas is written against:
\* it takes no version and clears the flag
finishGenerationNoVersion ==
    /\ isGenerating' = FALSE
    /\ lastOp' = [op |-> "finishGeneration", arg |-> [id |-> "", parentId |-> NULL]]
    /\ UNCHANGED <<versions, currentVersionId, activeBranchPath, hung>>

\* the store's part of a run that ends
finishRun(impl, version) ==
    IF impl = "functional"
    THEN finishGeneration(version)
    ELSE finishGenerationNoVersion

\* the node list with the input node n no longer generating
\* mutant: the flag of the node is left as it is
resetNode_keepsFlag(impl, n) == IF impl = "functional" THEN local ELSE nodesRef

resetNode(impl, n) ==
    IF impl = "functional"
    THEN [local EXCEPT !.gen[n] = FALSE]
    ELSE [nodesRef EXCEPT !.gen[n] = FALSE]

\* the number of output nodes, and of edges, the run adds when renderScene
\* has settled
\* mutant: the skeleton nodes are added whatever renderScene did
addedOutputs_always(ok, n) == numberOfOutputs(n)

addedOutputs(ok, n) == IF ok THEN numberOfOutputs(n) ELSE 0

\* the run button of an input node: the handler up to its first await
handleRunInputNode(r, n, impl) ==
    /\ runs[r].pc = "idle"
    /\ \A q \in RunIds : q < r => runs[q].pc # "idle"
    /\ nImpl \in {"none", impl}
    /\ nodesRef = local
    /\ nImpl' = impl
    /\ IF trim(nodesRef.prompt[n]) = ""
       THEN /\ runs' = [runs EXCEPT ![r] = [NoRun EXCEPT !.node = n, !.pc = "refused"]]
            /\ UNCHANGED <<local, storeVars>>
       ELSE /\ runs' = [runs EXCEPT ![r] =
                          [NoRun EXCEPT !.node = n, !.pc = "json", !.jsonCalled = TRUE]]
            /\ local' = [local EXCEPT !.gen[n] = TRUE]
            /\ startGeneration
    /\ UNCHANGED <<nodesRef, outEdges>>

\* catch (error): alert, reset the node, finishGeneration
catchBlock(r, stage) ==
    /\ runs' = [runs EXCEPT ![r] = [@ EXCEPT !.pc = "done", !.failedAt = stage]]
    /\ local' = resetNode(nImpl, runs[r].node)
    /\ finishRun(nImpl, [id |-> "", parentId |-> NULL])
    /\ UNCHANGED <<nImpl, nodesRef, outEdges>>

\* await generateSceneJson(...) settles; on success renderScene is called
jsonReturns(r, ok) ==
    /\ runs[r].pc = "json"
    /\ IF ok
       THEN /\ runs' = [runs EXCEPT ![r] =
                          [@ EXCEPT !.pc = "render", !.jsonOk = TRUE, !.renderCalled = TRUE]]
            /\ UNCHANGED <<nImpl, local, nodesRef, outEdges, storeVars>>
       ELSE catchBlock(r, "json")

\* the list the image timer of a run closes over: nodesWithSkeleton in the
\* snapshot canvas, nothing in the functional one
nodesWithSkeleton(impl, ns) == IF impl = "snapshot" THEN ns ELSE NoNodes

\* await renderScene(...) settles; on success the skeleton output nodes and
\* their edges are added and the image timer is set.  parent is the
\* currentVersionId the handler closed over, oldEdges the edges it closed over.
renderReturns(r, ok, hasProject, id, parent, oldEdges) ==
    LET n == runs[r].node
        k == addedOutputs(ok, n)
    IN
    /\ runs[r].pc = "render"
    /\ IF k = 0
       THEN catchBlock(r, "render")
       ELSE /\ local' = [resetNode(nImpl, n) EXCEPT !.outs = @ + k]
            /\ outEdges' = (IF nImpl = "functional" THEN outEdges ELSE oldEdges) + k
            /\ UNCHANGED <<nImpl, nodesRef>>
            /\ IF nImpl = "functional" /\ hasProject
               THEN /\ runs' = [runs EXCEPT ![r] =
                                  [@ EXCEPT !.pc = "saving", !.renderOk = ok, !.added = k,
                                            !.addedEdges = k, !.timer = TRUE, !.toSave = k]]
                    /\ UNCHANGED storeVars
               ELSE /\ runs' = [runs EXCEPT ![r] =
                                  [@ EXCEPT !.pc = "done", !.renderOk = ok, !.added = k,
                                            !.addedEdges = k, !.timer = TRUE,
                                            !.snap = nodesWithSkeleton(nImpl, local')]]
                    /\ finishRun(nImpl, [id |-> id, parentId |-> parent])

\* await saveProjectVersion(...) settles, once per image; what it does to the
\* row is requestWrites
saveVersionReturns(r, ok, id, parent) ==
    /\ runs[r].pc = "saving"
    /\ IF ~ok
       THEN catchBlock(r, "save")
       ELSE /\ UNCHANGED <<nImpl, local, nodesRef, outEdges>>
            /\ IF runs[r].toSave > 1
               THEN /\ runs' = [runs EXCEPT ![r] = [@ EXCEPT !.toSave = @ - 1]]
                    /\ UNCHANGED storeVars
               ELSE /\ runs' = [runs EXCEPT ![r] = [@ EXCEPT !.toSave = 0, !.pc = "done"]]
                    /\ finishRun(nImpl, [id |-> id, parentId |-> parent])

\* the list with the images of the run put into its output nodes
finalNodes(ns, added) ==
    [ns EXCEPT !.imaged = IF @ + added > ns.outs THEN ns.outs ELSE @ + added]

\* setTimeout(..., 300): the output nodes of the run get their images; the
\* functional canvas maps over the nodes of the moment, the snapshot canvas
\* sets the nodes to finalNodes made from nodesWithSkeleton
imageTimer(r) ==
    /\ runs[r].timer
    /\ runs' = [runs EXCEPT ![r] = [@ EXCEPT !.timer = FALSE]]
    /\ local' = IF nImpl = "snapshot"
                THEN finalNodes(runs[r].snap, runs[r].added)
                ELSE finalNodes(local, runs[r].added)
    /\ UNCHANGED <<nImpl, nodesRef, outEdges, storeVars>>

nonRunVars == <<renderVars, genVars, canvasVars, projectVars, errorVars, syncVars, uploadVars, pollVars, stageVars, refVars, migVars>>
TimestampIds == Ids \ {""}

UpdateNodeData ==
    /\ \E n \in InputNodes, prompt \in Prompts : updateNodeData(n, prompt)
    /\ UNCHANGED <<storeVars, nonRunVars>>
OnNodesChange == onNodesChange /\ UNCHANGED <<storeVars, nonRunVars>>
RefEffect == refEffect /\ UNCHANGED <<storeVars, nonRunVars>>
HandleRunInputNode ==
    /\ \E r \in RunIds, n \in InputNodes, impl \in CanvasImpls : handleRunInputNode(r, n, impl)
    /\ UNCHANGED nonRunVars
JsonReturns ==
    /\ \E r \in RunIds, ok \in BOOLEAN : jsonReturns(r, ok)
    /\ UNCHANGED nonRunVars
RenderReturns ==
    /\ \E r \in RunIds, ok \in BOOLEAN, hasProject \in BOOLEAN, id \in TimestampIds,
          parent \in {currentVersionId}, oldEdges \in 0..outEdges :
          renderReturns(r, ok, hasProject, id, parent, oldEdges)
    /\ UNCHANGED nonRunVars
SaveVersionReturns ==
    /\ \E r \in RunIds, ok \in BOOLEAN, id \in TimestampIds, parent \in {currentVersionId} :
          saveVersionReturns(r, ok, id, parent)
    /\ UNCHANGED nonRunVars
ImageTimer ==
    /\ \E r \in RunIds : imageTimer(r)
    /\ UNCHANGED nonRunVars

NextRun ==
    \/ UpdateNodeData
    \/ OnNodesChange
    \/ RefEffect
    \/ HandleRunInputNode
    \/ JsonReturns
    \/ RenderReturns
    \/ SaveVersionReturns
    \/ ImageTimer

SpecRun == Init /\ [][NextRun]_vars

\* the hosted calls return
SpecRunFair ==
    /\ SpecRun
    /\ WF_vars(JsonReturns)
    /\ WF_vars(RenderReturns)
    /\ WF_vars(SaveVersionReturns)


C16_StagesInSequence ==
    /\ [](\A r \in RunIds :
            /\ runs[r].renderCalled => runs[r].jsonOk
            /\ runs[r].added > 0 => runs[r].renderOk
            /\ runs[r].pc = "refused" => (~runs[r].jsonCalled /\ ~runs[r].renderCalled)
            /\ runs[r].failedAt \in {"json", "render"}
                  => (runs[r].added = 0 /\ runs[r].addedEdges = 0))
    /\ [][\A r \in RunIds :
            /\ (runs[r].pc = "idle" /\ runs'[r].pc = "refused")
                  => UNCHANGED <<local, outEdges, storeVars>>
            /\ (InFlight(r) /\ runs'[r].failedAt \in {"json", "render"})
                  => (local'.outs <= local.outs /\ outEdges' <= outEdges)
            /\ (runs[r].pc = "json" /\ runs'[r].pc # "json")
                  => (local'.outs <= local.outs /\ outEdges' <= outEdges)]_vars

C16_Witness ==
    /\ runs[1].pc = "refused"
    /\ local.prompt[runs[1].node] = " "
    /\ runs[2].pc = "done"
    /\ runs[2].failedAt = "render"
    /\ runs[2].jsonOk
    /\ local.outs = 0

(***************************************************************************)
(* The two effects of the canvas component that keep its local nodes and   *)
(* the store's nodes alike.  Both effects of one commit run back to back   *)
(* on the values of the render they belong to: the Local->Store effect     *)
(* when the local array changed since the last commit, the Store->Local    *)
(* effect when the store's array changed since the last commit.            *)
(***************************************************************************)
MaxSyncLen == 2
MaxExternal == 3

SyncLists == SeqsUpTo(CanvasNodes, MaxSyncLen)

\* what a project row can hold: node lists that went through JSON
StoredLists == {toJsonList(ns) : ns \in SyncLists}

\* hydratedNodes: the callbacks are put into the data of every input node
hydrate(ns) ==
    [i \in DOMAIN ns |->
        IF ns[i].type = "inputNode" THEN [ns[i] EXCEPT !.onRun = FUNC] ELSE ns[i]]

\* the condition of the Store->Local effect
storeToLocalFires(store, nds) ==
    Len(store) > 0 /\ toJsonList(store) # toJsonList(nds)

\* no effect is left to run
Quiet == ~dirty.nodes /\ ~dirty.store

\* one commit: useProjectStore.getState().setNodes(nodes) when nodes changed,
\* then the Store->Local effect on the storeNodes of the same render
commit ==
    /\ ~Quiet
    /\ LET fires == dirty.store /\ storeToLocalFires(storeNodes, localNodes)
       IN /\ storeNodes' = IF dirty.nodes THEN localNodes ELSE storeNodes
          /\ localNodes' = IF fires THEN hydrate(storeNodes) ELSE localNodes
          /\ dirty' = [nodes |-> fires, store |-> dirty.nodes /\ ~sameRef]
          /\ sameRef' = IF fires THEN FALSE ELSE (dirty.nodes \/ sameRef)
    /\ UNCHANGED external

\* loadCanvasState has read a project row with a canvas state:
\* set({ nodes: state.nodes || [], ... })
loadReturns(ns) ==
    /\ Quiet
    /\ external < MaxExternal
    /\ storeNodes' = ns
    /\ dirty' = [nodes |-> FALSE, store |-> TRUE]
    /\ sameRef' = FALSE
    /\ external' = external + 1
    /\ UNCHANGED localNodes

\* a change of the local nodes by the user: a node added, removed or edited
localChange(ns) ==
    /\ Quiet
    /\ external < MaxExternal
    /\ localNodes' = ns
    /\ dirty' = [nodes |-> TRUE, store |-> FALSE]
    /\ sameRef' = FALSE
    /\ external' = external + 1
    /\ UNCHANGED storeNodes

nonSyncVars == <<storeVars, renderVars, genVars, canvasVars, projectVars, errorVars, runVars, uploadVars, pollVars, stageVars, refVars, migVars>>

Commit == commit /\ UNCHANGED nonSyncVars
LoadReturns == Quiet /\ (\E ns \in StoredLists : loadReturns(ns)) /\ UNCHANGED nonSyncVars
LocalChange == Quiet /\ (\E ns \in SyncLists : localChange(ns)) /\ UNCHANGED nonSyncVars

NextSync ==
    \/ Commit
    \/ LoadReturns
    \/ LocalChange

SpecSync == Init /\ [][NextSync]_vars

\* React runs the effects of every render it commits
SpecSyncFair == SpecSync /\ WF_vars(Commit)

\* the effects come to rest after every load and every local change
EffectsStop == []<>Quiet

\* C17: whenever the Local->Store and the Store->Local effect have come to
\* rest, the store's nodes and the local nodes have the same JSON string.
C17_SyncEndsEqual == Quiet => toJsonList(storeNodes) = toJsonList(localNodes)

(***************************************************************************)
(* uploadImage: the server action that puts a file of the form data into   *)
(* object storage.  Strings are sequences of pieces; a file name is a      *)
(* sequence of characters.                                                 *)
(***************************************************************************)
MaxNameLen == 2

\* the characters the class [a-zA-Z0-9.-] matches, and some it does not
SafeChars == {"a", "Z", "7", ".", "-"}
NameChars == SafeChars \cup {"_", " ", "/"}
FileNames == SeqsUpTo(NameChars, MaxNameLen)
Uuids == {"uuid-1", "uuid-2"}

\* file.name.replace(/[^a-zA-Z0-9.-]/g, '_')
\* mutant: the name is used as it came
safeName_raw(name) == name

safeName(name) == [i \in DOMAIN name |-> IF name[i] \in SafeChars THEN name[i] ELSE "_"]

\* `uploads/${Date.now()}-${uniqueId}-${safeName}`
uploadKey(now, uniqueId, name) == <<"uploads/", now, "-", uniqueId, "-">> \o safeName(name)

\* uploadImage up to its await of uploadToR2; without a file, and when the
\* file cannot be read, the catch block throws
uploadImage(hasFile, name, now, uniqueId, readFails) ==
    /\ upCall.state = "none"
    /\ upCall' =
          IF ~hasFile \/ readFails
          THEN [NoUpload EXCEPT !.state = "threw", !.hasFile = hasFile,
                                !.message = "Failed to upload image"]
          ELSE [NoUpload EXCEPT !.state = "storing", !.hasFile = TRUE, !.name = name,
                                !.key = uploadKey(now, uniqueId, name)]

\* uploadToR2 has settled: the public URL, or its error, which the catch
\* block of uploadImage replaces
uploadToR2Returns(fails) ==
    /\ upCall.state = "storing"
    /\ upCall' =
          IF fails
          THEN [upCall EXCEPT !.state = "threw", !.message = "Failed to upload image"]
          ELSE [upCall EXCEPT !.state = "returned", !.url = publicUrl(upCall.key)]

nonUploadVars == <<storeVars, renderVars, genVars, canvasVars, projectVars, errorVars, runVars, syncVars, pollVars, stageVars, refVars, migVars>>

UploadImage ==
    /\ upCall.state = "none"
    /\ \E hasFile, readFails \in BOOLEAN, name \in FileNames, now \in Timestamps, uniqueId \in Uuids :
          uploadImage(hasFile, name, now, uniqueId, readFails)
    /\ UNCHANGED nonUploadVars
UploadToR2Returns ==
    /\ upCall.state = "storing"
    /\ \E fails \in BOOLEAN : uploadToR2Returns(fails)
    /\ UNCHANGED nonUploadVars

NextUpload ==
    \/ UploadImage
    \/ UploadToR2Returns

SpecUpload == Init /\ [][NextUpload]_vars

\* the key of a call, without the pieces in front of the file name
NamePart(key) == SubSeq(key, 6, Len(key))

\* C18: a URL returned by uploadImage is the public bucket base, "/",
\* "uploads/", a timestamp and a unique id, and then the file name with
\* every character outside letters, digits, "." and "-" replaced by "_", so
\* that no other character of the name reaches the key; a call that threw
\* has no URL, carries the message of the action, and is the only outcome
\* of a call without a file.
C18_UploadUrl ==
    /\ upCall.state = "returned" =>
          /\ upCall.hasFile
          /\ Len(upCall.url) = 7 + Len(upCall.name)
          /\ SubSeq(upCall.url, 1, 3) = <<R2_PUBLIC_URL, "/", "uploads/">>
          /\ upCall.url[4] \in Timestamps /\ upCall.url[5] = "-"
          /\ upCall.url[6] \in Uuids /\ upCall.url[7] = "-"
          /\ SubSeq(upCall.url, 3, Len(upCall.url)) = upCall.key
          /\ \A i \in DOMAIN upCall.name :
                /\ NamePart(upCall.key)[i] \in SafeChars \cup {"_"}
                /\ upCall.name[i] \in SafeChars => NamePart(upCall.key)[i] = upCall.name[i]
                /\ upCall.name[i] \notin SafeChars => NamePart(upCall.key)[i] = "_"
    /\ upCall.state = "threw" =>
          upCall.url = <<>> /\ upCall.message = "Failed to upload image"
    /\ (upCall.state \in {"storing", "returned"}) => upCall.hasFile
    /\ upCall.state # "returned" => upCall.url = <<>>

\* a file named "a/" was stored and its URL returned
C18_Witness ==
    /\ upCall.state = "returned"
    /\ upCall.name = <<"a", "/">>
    /\ NamePart(upCall.key) = <<"a", "_">>

(***************************************************************************)
(* renderScene: the seeds of the variants, and the re-upload of the images *)
(***************************************************************************)
\* C19: in every implementation the call for variant i, counted from 0, is
\* submitted with seed base + i, where base is the seed of the request, also
\* when that is 0, and otherwise the default of the implementation (2771 for
\* the two diffusion actions, 5555 for the route and the RunPod action); the
\* seeds of one call are pairwise distinct and consecutive.
C19_SeedsAreBasePlusIndex ==
    (rOutcome # "none" /\ rBody.json_prompt) =>
        LET base == IF rBody.seed.set THEN rBody.seed.n
                    ELSE IF rImpl \in {"action", "plain"} THEN 2771 ELSE 5555
        IN /\ Len(rCalls) = Len(rVar)
           /\ \A i \in DOMAIN rCalls : rCalls[i] = base + (i - 1)
           /\ \A i, j \in DOMAIN rCalls : i # j => rCalls[i] # rCalls[j]
           /\ \A i \in DOMAIN rCalls : i > 1 => rCalls[i] = rCalls[i - 1] + 1

\* two variants were submitted with the seed 0 of the request, and two with
\* the default of the RunPod action
C19_Witness ==
    /\ Len(rCalls) = 2
    /\ \/ rBody.seed.set /\ rBody.seed.n = 0 /\ rCalls = <<0, 1>>
       \/ ~rBody.seed.set /\ rImpl = "runpod" /\ rCalls = <<5555, 5556>>

\* C20: in the re-uploading action a variant whose diffusion call returned
\* an image URL never throws, whatever the download and the upload do; once
\* it is done its URL is the public URL of the object stored under
\* generations/<requestId, or the timestamp when there is none>-<index>.png
\* when the download and the upload both succeeded, and the diffusion
\* service's URL otherwise.
C20_ReuploadFallsBack ==
    rImpl = "action" =>
        \A i \in Variants :
            rVar[i].diff = "url" =>
                /\ rVar[i].phase # "threw"
                /\ rVar[i].phase = "done" =>
                      IF rVar[i].dl = "ok" /\ rVar[i].up = "ok"
                      THEN /\ rVar[i].url.host = "r2"
                           /\ Len(rVar[i].url.path) = 7
                           /\ rVar[i].url.path[1] = R2_PUBLIC_URL
                           /\ rVar[i].url.path[2] = "/"
                           /\ rVar[i].url.path[3] = "generations/"
                           /\ rVar[i].url.path[4] =
                                 (IF rVar[i].rid # "" THEN rVar[i].rid ELSE rVar[i].url.path[4])
                           /\ rVar[i].rid = "" => rVar[i].url.path[4] \in Timestamps
                           /\ rVar[i].url.path[5] = "-"
                           /\ rVar[i].url.path[6] = i - 1
                           /\ rVar[i].url.path[7] = ".png"
                      ELSE rVar[i].url = falUrl(i)

\* of two variants with an image URL, the first was stored under its request
\* id and the second kept the diffusion URL because its upload failed; the
\* call resolved with both
C20_Witness ==
    /\ rImpl = "action"
    /\ Len(rVar) = 2
    /\ rVar[1].phase = "done" /\ rVar[1].dl = "ok" /\ rVar[1].up = "ok"
    /\ rVar[1].rid = "req-1" /\ rVar[1].url.host = "r2"
    /\ rVar[2].phase = "done" /\ rVar[2].dl = "ok" /\ rVar[2].up = "fails"
    /\ rVar[2].url = falUrl(2)
    /\ rOutcome = "resolved"
    /\ Len(rImages) = 2

(***************************************************************************)
(* The RunPod renderScene, one variant: endpoint.run, then the loop that   *)
(* asks endpoint.status every two seconds.                                 *)
(***************************************************************************)
maxAttempts == 120

JobStatuses == {"COMPLETED", "FAILED", "IN_PROGRESS", "IN_QUEUE"}

\* while (attempts < maxAttempts)
\* mutant: the loop is entered once more
loopContinues_inclusive(attempts) == attempts <= maxAttempts

loopContinues(attempts) == attempts < maxAttempts

\* endpoint.run has returned: without a job id the variant throws
runReturns(hasJobId) ==
    /\ pJob.pc = "none"
    /\ pJob' = IF ~hasJobId
               THEN [pJob EXCEPT !.pc = "threw", !.message = "Failed to submit job to RunPod"]
               ELSE IF loopContinues(0)
                    THEN [pJob EXCEPT !.pc = "status"]
                    ELSE [pJob EXCEPT !.pc = "threw", !.message = "Job timed out"]

\* the statements after the loop was left by break
afterLoop(job, hasUrl) ==
    IF job.attempts >= maxAttempts
    THEN [job EXCEPT !.pc = "threw", !.message = "Job timed out"]
    ELSE IF hasUrl
         THEN [job EXCEPT !.pc = "returned", !.hasUrl = TRUE]
         ELSE [job EXCEPT !.pc = "threw", !.message = "No image URL in RunPod response"]

\* endpoint.status(jobId) has returned, or has thrown
statusReturns(status, hasUrl, throws) ==
    /\ pJob.pc = "status"
    /\ LET job == [pJob EXCEPT !.checks = @ + 1]
       IN pJob' =
            IF throws THEN [job EXCEPT !.pc = "threw", !.message = "status request failed"]
            ELSE IF status = "COMPLETED"
                 THEN afterLoop([job EXCEPT !.sawCompleted = TRUE], hasUrl)
            ELSE IF status = "FAILED"
                 THEN [job EXCEPT !.pc = "threw", !.sawFailed = TRUE,
                                  !.message = "RunPod job failed"]
            ELSE [job EXCEPT !.pc = "sleeping"]

\* setTimeout(resolve, 2000) fires: attempts++, then the loop condition and,
\* when it is false, the test after the loop
timerFires ==
    /\ pJob.pc = "sleeping"
    /\ LET job == [pJob EXCEPT !.attempts = @ + 1]
       IN pJob' = IF loopContinues(job.attempts)
                  THEN [job EXCEPT !.pc = "status"]
                  ELSE afterLoop(job, FALSE)

nonPollVars == <<storeVars, renderVars, genVars, canvasVars, projectVars, errorVars, runVars, syncVars, uploadVars, stageVars, refVars, migVars>>

RunReturns == (\E hasJobId \in BOOLEAN : runReturns(hasJobId)) /\ UNCHANGED nonPollVars
StatusReturns ==
    /\ pJob.pc = "status"
    /\ \E status \in JobStatuses, hasUrl, throws \in BOOLEAN : statusReturns(status, hasUrl, throws)
    /\ UNCHANGED nonPollVars
TimerFires == timerFires /\ UNCHANGED nonPollVars

NextPoll ==
    \/ RunReturns
    \/ StatusReturns
    \/ TimerFires

SpecPoll == Init /\ [][NextPoll]_vars

\* the awaited calls of the variant return and its timer fires
SpecPollFair ==
    SpecPoll /\ WF_vars(RunReturns) /\ WF_vars(StatusReturns) /\ WF_vars(TimerFires)

PollEnded == pJob.pc \in {"returned", "threw"}

\* C21: the polling of a variant ends, after at most 120 status checks; it
\* returns an image URL only if a COMPLETED status was seen; a FAILED
\* status makes it throw at once, with no further check; and when 120
\* checks have passed without COMPLETED or FAILED it throws 'Job timed out'.
C21_PollingEnds ==
    /\ <>PollEnded
    /\ [](/\ pJob.checks <= 120
          /\ pJob.pc = "returned" => pJob.sawCompleted /\ pJob.hasUrl
          /\ pJob.sawFailed => pJob.pc = "threw" /\ pJob.message = "RunPod job failed"
          /\ (pJob.checks = 120 /\ pJob.pc # "sleeping" /\ ~pJob.sawCompleted
                /\ ~pJob.sawFailed /\ pJob.message # "status request failed")
                => pJob.pc = "threw" /\ pJob.message = "Job timed out"
          /\ pJob.message = "Job timed out" => pJob.checks = 120 /\ ~pJob.sawCompleted)
    /\ [][pJob.sawFailed => pJob'.checks = pJob.checks]_vars

\* the 120th status check was the first to answer COMPLETED, and the
\* variant returned its image URL
C21_Witness ==
    /\ pJob.pc = "returned"
    /\ pJob.checks = 120
    /\ pJob.attempts = 119

\* 120 checks passed and the variant threw 'Job timed out'
C21_WitnessTimeout ==
    /\ pJob.pc = "threw"
    /\ pJob.message = "Job timed out"
    /\ pJob.checks = 120

(***************************************************************************)
(* handleRunInputNode: the stage tag sent to generateSceneJson, chosen     *)
(* from the store's edges and nodes and the viewType of the input node.    *)
(***************************************************************************)
MaxStageEdges == 2

\* the input node that runs
RunNode == "in-1"

\* the store's nodes an edge can start from: an output node whose data has
\* a structuredPrompt, one whose data has none, and another input node;
\* "gone" is the id of no node
StageNodes ==
    [out_sp |-> [type |-> "outputNode", structuredPrompt |-> TRUE],
     out_plain |-> [type |-> "outputNode", structuredPrompt |-> FALSE],
     in_2 |-> [type |-> "inputNode", structuredPrompt |-> FALSE]]
StageSources == DOMAIN StageNodes \cup {"gone"}
StageEdges ==
    [source : StageSources, target : {RunNode, "in-2"}, targetHandle : {"reference", "prompt"}]
StageEdgeLists == SeqsUpTo(StageEdges, MaxStageEdges)
ViewTypes == {"3d", "room", UNDEF}

\* edges.find(e => e.target === nodeId && e.targetHandle === 'reference'):
\* the index of the first such edge, 0 when there is none
RECURSIVE refineEdge(_, _, _)
refineEdge(es, nodeId, i) ==
    IF i > Len(es) THEN 0
    ELSE IF es[i].target = nodeId /\ es[i].targetHandle = "reference" THEN i
    ELSE refineEdge(es, nodeId, i + 1)

\* previousStructuredPrompt is set: the source of the refine edge is an
\* output node of the store whose data has a structuredPrompt
previousStructuredPrompt(es, nodeId) ==
    LET i == refineEdge(es, nodeId, 1)
    IN /\ i # 0
       /\ es[i].source \in DOMAIN StageNodes
       /\ StageNodes[es[i].source].type = "outputNode"
       /\ StageNodes[es[i].source].structuredPrompt

generationType(es, nodeId, viewType) ==
    IF previousStructuredPrompt(es, nodeId) THEN "refine"
    ELSE IF viewType = "room" THEN "visualize"
    ELSE "structure"

selectStage(es, viewType) ==
    /\ ~stagePick.called
    /\ stagePick' = [called |-> TRUE, edges |-> es, viewType |-> viewType,
                     type |-> generationType(es, RunNode, viewType)]

nonStageVars == <<storeVars, renderVars, genVars, canvasVars, projectVars, errorVars, runVars, syncVars, uploadVars, pollVars, refVars, migVars>>

SelectStage ==
    /\ ~stagePick.called
    /\ \E es \in StageEdgeLists, viewType \in ViewTypes : selectStage(es, viewType)
    /\ UNCHANGED nonStageVars

NextStage == SelectStage

SpecStage == Init /\ [][NextStage]_vars

\* some edge ends at the reference handle of the node and starts at an
\* output node whose data has a structuredPrompt
SomeRefineEdge(es, nodeId) ==
    \E i \in DOMAIN es :
        /\ es[i].target = nodeId
        /\ es[i].targetHandle = "reference"
        /\ es[i].source \in DOMAIN StageNodes
        /\ StageNodes[es[i].source].type = "outputNode"
        /\ StageNodes[es[i].source].structuredPrompt

\* C22: the stage is 'refine' exactly when some edge ends at the node's
\* reference handle and starts at an output node whose data has a
\* structuredPrompt; otherwise 'visualize' when viewType is 'room', and
\* 'structure' in every other case.
C22_StageSelection ==
    stagePick.called =>
        stagePick.type =
            (IF SomeRefineEdge(stagePick.edges, RunNode) THEN "refine"
             ELSE IF stagePick.viewType = "room" THEN "visualize"
             ELSE "structure")

(***************************************************************************)
(* The reference images of an input node: added by hand, added by          *)
(* connecting an output node to the reference handle, removed by index.    *)
(***************************************************************************)
Images == {"img-1", "img-2", "img-3", "img-4"}

\* currentImages.includes(image)
includes(images, image) == \E i \in DOMAIN images : images[i] = image

\* the list a node gets when an image is added
\* mutant: the image is appended without the test
withImage_always(images, image) == Append(images, image)

withImage(images, image) ==
    IF ~includes(images, image) THEN Append(images, image) ELSE images

\* newImages.splice(index, 1): a negative index counts from the end, an
\* index past the end removes nothing
splice(images, index) ==
    LET len == Len(images)
        start == IF index < 0
                 THEN (IF len + index < 0 THEN 0 ELSE len + index)
                 ELSE (IF index > len THEN len ELSE index)
    IN IF start >= len THEN images
       ELSE SubSeq(images, 1, start) \o SubSeq(images, start + 2, len)

addNodeReferenceImage(image) ==
    /\ refImages' = withImage(refImages, image)
    /\ refOp' = [op |-> "add", arg |-> image, before |-> refImages]

\* onConnect of an output node to the reference handle: the image of the
\* output node is added when it has one, "" being an output node still
\* without an image
onConnect(imageUrl) ==
    /\ refImages' = IF imageUrl # "" THEN withImage(refImages, imageUrl) ELSE refImages
    /\ refOp' = [op |-> "connect", arg |-> imageUrl, before |-> refImages]

removeNodeReferenceImage(index) ==
    /\ refImages' = splice(refImages, index)
    /\ refOp' = [op |-> "remove", arg |-> "", before |-> refImages]

nonRefVars == <<storeVars, renderVars, genVars, canvasVars, projectVars, errorVars, runVars, syncVars, uploadVars, pollVars, stageVars, migVars>>

AddNodeReferenceImage ==
    (\E image \in Images : addNodeReferenceImage(image)) /\ UNCHANGED nonRefVars
OnConnect ==
    (\E imageUrl \in Images \cup {""} : onConnect(imageUrl)) /\ UNCHANGED nonRefVars
RemoveNodeReferenceImage ==
    (\E index \in -2..(Len(refImages) + 1) : removeNodeReferenceImage(index))
    /\ UNCHANGED nonRefVars

NextRef ==
    \/ AddNodeReferenceImage
    \/ OnConnect
    \/ RemoveNodeReferenceImage

SpecRef == Init /\ [][NextRef]_vars

NoDuplicates(images) ==
    \A i, j \in DOMAIN images : images[i] = images[j] => i = j

\* C23: after every sequence of addNodeReferenceImage, onConnect from an
\* output node and removeNodeReferenceImage the list has no duplicates, and
\* adding, by hand or by a connection, an image that is already in the list
\* leaves the list as it was.
C23_NoDuplicateReferences ==
    /\ NoDuplicates(refImages)
    /\ (refOp.op \in {"add", "connect"} /\ includes(refOp.before, refOp.arg))
          => refImages = refOp.before

\* an image already in a list of two was added again, by a connection
C23_Witness ==
    /\ refOp.op = "connect"
    /\ Len(refOp.before) = 2
    /\ includes(refOp.before, refOp.arg)
    /\ refImages = refOp.before

(***************************************************************************)
(* The editor page's fetchData: the versions of canvasState that no node   *)
(* shows yet are turned into output nodes before the nodes are handed to   *)
(* the store.  A node id is a pair of a prefix and a name.                 *)
(***************************************************************************)
MaxLegacy == 2
MaxStoredNodes == 2

ImageUrls == {UNDEF, "img-1", "img-2"}

\* the nodes a project row can hold: an input node, which has no imageUrl,
\* and output nodes with their image
StoredNodes ==
    {[id |-> <<"node-", "input-1">>, type |-> "inputNode", imageUrl |-> UNDEF],
     [id |-> <<"node-", "output-1">>, type |-> "outputNode", imageUrl |-> "img-1"],
     [id |-> <<"node-", "output-2">>, type |-> "outputNode", imageUrl |-> "img-2"]}
StoredNodeLists == SeqsUpTo(StoredNodes, MaxStoredNodes)

\* the versions saveProjectVersion has written: id: crypto.randomUUID()
LegacyVersions == [id : {"v1", "v2", "v3"}, imageUrl : ImageUrls]
LegacyLists ==
    {vs \in SeqsUpTo(LegacyVersions, MaxLegacy) :
        \A i, j \in DOMAIN vs : vs[i].id = vs[j].id => i = j}

\* `output-migrated-${version.id}`
potentialNodeId(version) == <<"output-migrated-", version.id>>

\* nodes.some((n) => n.data?.imageUrl === version.imageUrl)
\* mutant: the node is looked for by its id
isAlreadyInNodes_byId(ns, version) ==
    \E i \in DOMAIN ns : ns[i].id = potentialNodeId(version)

isAlreadyInNodes(ns, version) ==
    \E i \in DOMAIN ns : ns[i].imageUrl = version.imageUrl

\* versions.forEach(...) from version k on: nodes.push of an output node for
\* every version not yet found in nodes, the pushed ones included
RECURSIVE migrate(_, _, _)
migrate(ns, legacy, k) ==
    IF k > Len(legacy) THEN ns
    ELSE IF isAlreadyInNodes(ns, legacy[k])
         THEN migrate(ns, legacy, k + 1)
         ELSE migrate(Append(ns, [id |-> potentialNodeId(legacy[k]),
                                  type |-> "outputNode",
                                  imageUrl |-> legacy[k].imageUrl]),
                      legacy, k + 1)

\* fetchData on a project row with the canvasState {nodes, versions}
fetchData(ns, legacy) ==
    /\ migOp.op = "none"
    /\ migNodes' = migrate(ns, legacy, 1)
    /\ migVersions' = legacy
    /\ migOp' = [op |-> "fetch", before |-> ns]

\* fetchData once more, on the row holding the nodes of the last load and
\* the same versions
fetchDataAgain ==
    /\ migOp.op = "fetch"
    /\ migNodes' = migrate(migNodes, migVersions, 1)
    /\ migOp' = [op |-> "again", before |-> migNodes]
    /\ UNCHANGED migVersions

nonMigVars == <<storeVars, renderVars, genVars, canvasVars, projectVars, errorVars, runVars, syncVars, uploadVars, pollVars, stageVars, refVars>>

FetchData ==
    /\ migOp.op = "none"
    /\ \E ns \in StoredNodeLists, legacy \in LegacyLists : fetchData(ns, legacy)
    /\ UNCHANGED nonMigVars
FetchDataAgain == fetchDataAgain /\ UNCHANGED nonMigVars

NextMig ==
    \/ FetchData
    \/ FetchDataAgain

SpecMig == Init /\ [][NextMig]_vars

\* some node of ns carries the image of the version
Carried(ns, version) == \E i \in DOMAIN ns : ns[i].imageUrl = version.imageUrl

\* the nodes of ns from position from on that have the migrated id of the version
MigratedNodesOf(ns, from, version) ==
    {i \in from..Len(ns) : ns[i].id = potentialNodeId(version)}

FirstWithImage(legacy, k) ==
    \A j \in 1..(k - 1) : legacy[j].imageUrl # legacy[k].imageUrl

RunFails(r) == InFlight(r) /\ runs'[r].pc = "done" /\ runs'[r].failedAt # "none"

\* C25: the step in which a run fails adds no entry to the store's versions
\* and leaves currentVersionId and activeBranchPath as they were; the
\* store's isGenerating is false after it.
C25_FailureKeepsVersions ==
    [][\A r \in RunIds :
          RunFails(r) =>
              /\ versions' = versions
              /\ currentVersionId' = currentVersionId
              /\ activeBranchPath' = activeBranchPath
              /\ ~isGenerating']_vars

(***************************************************************************)
(* Versions saved into a project row while other requests write the row.   *)
(***************************************************************************)
\* the saveProjectVersion requests on row p that have returned their version
SavedVersions(p) ==
    {s \in Slots : /\ reqs[s].path = "saveProjectVersion"
                   /\ reqs[s].id = p
                   /\ reqs[s].wrote}

\* C26: the versions list stored in a project row holds every version that
\* a saveProjectVersion call on that row has returned, whatever other
\* saveProjectVersion and updateProject requests on the row did meanwhile
\* or afterwards: it is never shorter than the number of these calls.
C26_SavedVersionsAreKept ==
    \A p \in ProjectRows :
        canvasState[p].versions >= Cardinality(SavedVersions(p))

\* C27: whenever the data of some input node has isGenerating true, the
\* store's isGenerating is true, also while runs of several input nodes
\* overlap.
C27_NodeFlagImpliesStoreFlag ==
    (\E n \in InputNodes : local.gen[n]) => isGenerating

\* the step in which renderScene returns its images to run r
RunSucceeds(r) == runs[r].pc = "render" /\ runs'[r].renderOk

\* the step in which the image timer of run r fires
TimerOf(r) == runs[r].timer /\ ~runs'[r].timer

\* every node and every edge of before the step is there after it, with
\* the prompts and the flags of the input nodes other than n as they were
KeepsOthers(n) ==
    /\ local'.prompt = local.prompt
    /\ \A m \in InputNodes \ {n} : local'.gen[m] = local.gen[m]
    /\ local'.imaged >= local.imaged

\* C28: a run of a node with numberOfOutputs k that succeeds adds exactly k
\* output nodes and k edges to the nodes and edges of the moment, and neither
\* that step nor the firing of its image timer removes a node or an edge or
\* puts back the data of another node, whatever user edits and other runs
\* did in between.
C28_RunOnlyAdds ==
    [][\A r \in RunIds :
          /\ RunSucceeds(r) =>
                /\ local'.outs = local.outs + numberOfOutputs(runs[r].node)
                /\ outEdges' = outEdges + numberOfOutputs(runs[r].node)
                /\ KeepsOthers(runs[r].node)
          /\ TimerOf(r) =>
                /\ local'.outs = local.outs
                /\ outEdges' = outEdges
                /\ local'.gen = local.gen
                /\ KeepsOthers(runs[r].node)]_vars

\* the nodes and edges persisted for project id, empty when it has no canvas state
persistedNodes(id) == IF canvasState[id].isNull THEN <<>> ELSE nodesOf(canvasState[id])
persistedEdges(id) == IF canvasState[id].isNull THEN <<>> ELSE edgesOf(canvasState[id])

\* the step of a loadCanvasState(id) whose getProject did not throw
LoadResolves(id) ==
    /\ session # NULL
    /\ ownerOf(id) = session
    /\ loadCanvasState(id, FALSE)

\* C29: after loadCanvasState(id) has resolved without a fetch error the
\* store's projectId is id and its nodes and edges are those persisted for
\* id, the empty lists when the project has no canvas state, so that nothing
\* of what the store held before remains.
C29_LoadReplacesGraph ==
    [][\A id \in ProjectRows :
          LoadResolves(id) =>
              /\ projectId' = id
              /\ nodes' = persistedNodes(id)
              /\ edges' = persistedEdges(id)]_vars

\* the step in which variant i of the call hands its image to uploadToR2
StartsUpload(i) ==
    /\ i \in DOMAIN rVar
    /\ i \in DOMAIN rVar'
    /\ rVar[i].phase = "downloading"
    /\ rVar'[i].phase = "uploading"

\* C30: once a renderScene call has rejected because one of its variants
\* failed, no variant of that call that is still in flight starts an upload
\* to object storage.
C30_NoUploadAfterRejection ==
    [][rOutcome = "rejected" => \A i \in 1..MaxVariants : ~StartsUpload(i)]_vars

====
